---- MODULE Spec2Model ----
(***************************************************************************)
(* A model of mdToHtml.js: the fallback Markdown engine (block segmenter,  *)
(* block renderer, inline renderer), the link safety policy and the        *)
(* markdown-it adapter.                                                    *)
(*                                                                         *)
(* Text is a sequence of one-character strings.  Line cursors are 1-based  *)
(* here (the code's i = 0 is i = 1), so "i < lines.length" reads           *)
(* i <= Len(lines).                                                        *)
(***************************************************************************)
EXTENDS Integers, Sequences, FiniteSets, TLC

VARIABLES
  options,  \* the options of the call
  stack,    \* the activations of fallbackMdToHtml, outermost first
  result,   \* <<"running">>, or <<"done", html>> once the outermost call returned
  placed,   \* history: which block, at which depth, consumed which source line
  dlg,      \* the state of renderWithMarkdownIt: engine, plugins, tokens, HTML
  call      \* a direct call of safeLinkHref or renderInline: arguments and progress

vars == <<options, stack, result, placed, dlg, call>>

(***************************************************************************)
(* Characters and the regular-expression primitives the parsers use.       *)
(***************************************************************************)
NL == "\n"
CR == "\r"
TAB == "\t"
\* The backtick character (the lexer of TLA+ does not take it inside a string).
Backtick == "BACKTICK"

LowerSeq == <<"a","b","c","d","e","f","g","h","i","j","k","l","m",
              "n","o","p","q","r","s","t","u","v","w","x","y","z">>
UpperSeq == <<"A","B","C","D","E","F","G","H","I","J","K","L","M",
              "N","O","P","Q","R","S","T","U","V","W","X","Y","Z">>
Digits == {"0","1","2","3","4","5","6","7","8","9"}
Lower == {LowerSeq[k] : k \in DOMAIN LowerSeq}
Upper == {UpperSeq[k] : k \in DOMAIN UpperSeq}

\* \s of a JavaScript regular expression, on the characters of the model.
IsWs(c) == c \in {" ", TAB, NL, CR}
\* [A-Za-z0-9_-]
IsLangChar(c) == c \in Lower \cup Upper \cup Digits \cup {"_", "-"}

Min(a, b) == IF a < b THEN a ELSE b

\* F applied to v: gives a name to a value that is used more than once.
With(v, F(_)) == F(v)

\* s from position p on (empty when p is past the end).
From(s, p) == SubSeq(s, p, Len(s))

\* The first position q >= p of s whose character satisfies Stop, or the
\* position after the end of s when there is none (p itself when p is past
\* the end): where a greedy run of the complement class, started at p, ends.
Scan(s, p, Stop(_)) ==
  IF p > Len(s) THEN p
  ELSE CHOOSE q \in p..(Len(s) + 1) :
         /\ q > Len(s) \/ Stop(s[q])
         /\ \A r \in p..(q - 1) : ~Stop(s[r])

\* The first position >= p of s that holds no whitespace (Len(s)+1 if none).
SkipWs(s, p) == Scan(s, p, LAMBDA c : ~IsWs(c))

\* The first position >= p of s that does not hold character c.
SkipChar(s, p, c) == Scan(s, p, LAMBDA d : d # c)

\* The first position >= p of s that holds no decimal digit.
SkipDigits(s, p) == Scan(s, p, LAMBDA c : c \notin Digits)

\* The first position >= p of s that holds no [A-Za-z0-9_-] character.
SkipLang(s, p) == Scan(s, p, LAMBDA c : ~IsLangChar(c))

\* The last position <= p of s that holds no whitespace (0 if none).
SkipWsBack(s, p) ==
  IF p < 1 THEN p
  ELSE CHOOSE q \in 0..p :
         /\ q = 0 \/ ~IsWs(s[q])
         /\ \A r \in (q + 1)..p : IsWs(s[r])

\* String.prototype.trim
Trim(s) == SubSeq(s, SkipWs(s, 1), SkipWsBack(s, Len(s)))

\* !line.trim()
IsBlank(s) == Trim(s) = <<>>

\* String.prototype.includes for one character
Includes(s, c) == \E k \in DOMAIN s : s[k] = c

\* String.prototype.startsWith
StartsWith(s, pre) == Len(s) >= Len(pre) /\ SubSeq(s, 1, Len(pre)) = pre

\* The number of positions of s that hold c.
CountChar(s, c) == Cardinality({k \in DOMAIN s : s[k] = c})

\* The position of the first c in s at or after p (Len(s)+1 if none).
IndexOf(s, c, p) == Scan(s, p, LAMBDA d : d = c)

\* String.prototype.split for a one-character separator.
RECURSIVE Split(_, _)
Split(s, c) ==
  With(IndexOf(s, c, 1), LAMBDA k :
     IF k > Len(s) THEN <<s>> ELSE <<SubSeq(s, 1, k - 1)>> \o Split(From(s, k + 1), c))

\* Array.prototype.join for a one-character separator.
RECURSIVE Join(_, _)
Join(ss, c) ==
  IF ss = <<>> THEN <<>>
  ELSE IF Len(ss) = 1 THEN ss[1]
  ELSE ss[1] \o <<c>> \o Join(Tail(ss), c)

\* s, from position p on, starts with pre
StartsWithAt(s, p, pre) ==
  p + Len(pre) - 1 <= Len(s) /\ SubSeq(s, p, p + Len(pre) - 1) = pre

\* The first position q >= p at which pat occurs in s (Len(s)+1 if none).
IndexOfLit(s, pat, p) ==
  IF \E q \in p..Len(s) : StartsWithAt(s, q, pat)
  THEN CHOOSE q \in p..Len(s) :
         StartsWithAt(s, q, pat) /\ \A r \in p..(q - 1) : ~StartsWithAt(s, r, pat)
  ELSE Len(s) + 1

\* String.prototype.replace(/pat/g, rep) for a literal, non-empty pattern pat,
\* from position p of s on
RECURSIVE ReplaceFrom(_, _, _, _)
ReplaceFrom(s, p, pat, rep) ==
  With(IndexOfLit(s, pat, p), LAMBDA q :
     IF q > Len(s) THEN From(s, p)
     ELSE SubSeq(s, p, q - 1) \o rep \o ReplaceFrom(s, q + Len(pat), pat, rep))

ReplaceLit(s, pat, rep) == ReplaceFrom(s, 1, pat, rep)

\* md.replace(/\r\n/g, "\n").replace(/\r/g, "\n")
normalizeNewlines(md) == ReplaceLit(ReplaceLit(md, <<CR, NL>>, <<NL>>), <<CR>>, <<NL>>)

splitLines(md) == Split(normalizeNewlines(md), NL)

NoMatch == [ok |-> FALSE]

(***************************************************************************)
(* Block classifiers.                                                      *)
(***************************************************************************)
\* /^(\s*)(```|~~~)\s*([A-Za-z0-9_-]+)?\s*$/
parseFence(line) ==
  With(SkipWs(line, 1), LAMBDA p1 :
  With(SkipWs(line, p1 + 3), LAMBDA p2 :
  With(SkipLang(line, p2), LAMBDA p3 :
  With(SkipWs(line, p3), LAMBDA p4 :
     IF /\ p1 + 2 <= Len(line)
        /\ line[p1] \in {Backtick, "~"}
        /\ line[p1 + 1] = line[p1]
        /\ line[p1 + 2] = line[p1]
        /\ p4 = Len(line) + 1
     THEN [ok |-> TRUE, indent |-> p1 - 1, marker |-> line[p1],
           lang |-> SubSeq(line, p2, p3 - 1)]
     ELSE NoMatch))))

\* new RegExp("^\\s*" + marker + "\\s*$") with marker ``` or ~~~
isFenceEnd(l, marker) ==
  With(SkipWs(l, 1), LAMBDA p1 :
     /\ p1 + 2 <= Len(l)
     /\ l[p1] = marker /\ l[p1 + 1] = marker /\ l[p1 + 2] = marker
     /\ SkipWs(l, p1 + 3) = Len(l) + 1)

\* /^(c\s*){3,}$/ on the trimmed line, for c one of * - _
isThematicBreak(line) ==
  With(Trim(line), LAMBDA t :
     \E c \in {"*", "-", "_"} :
       /\ \A k \in DOMAIN t : t[k] = c \/ IsWs(t[k])
       /\ CountChar(t, c) >= 3)

\* s from p on matches /\s*#*\s*$/
AtxTail(s, p) == SkipWs(s, SkipChar(s, SkipWs(s, p), "#")) = Len(s) + 1

\* The least e >= p with AtxTail(s, e + 1): the lazy (.+?) of the ATX pattern.
RECURSIVE AtxTextEnd(_, _)
AtxTextEnd(s, p) == IF p >= Len(s) \/ AtxTail(s, p + 1) THEN p ELSE AtxTextEnd(s, p + 1)

MaxAtxLevel == 6

\* /^(#{1,6})\s+(.+?)\s*#*\s*$/
parseAtxHeading(line) ==
  With(SkipChar(line, 1, "#") - 1, LAMBDA n :
  With(SkipWs(line, n + 1), LAMBDA w :
  With(IF w <= Len(line) THEN w ELSE Len(line), LAMBDA t0 :
     IF /\ n >= 1 /\ n <= MaxAtxLevel
        /\ w > n + 1
        /\ t0 > n + 1
     THEN [ok |-> TRUE, level |-> n, text |-> SubSeq(line, t0, AtxTextEnd(line, t0))]
     ELSE NoMatch)))

\* /^=+$/ or /^-+$/
AllOf(t, c) == t # <<>> /\ \A k \in DOMAIN t : t[k] = c

parseSetextHeading(lines, i) ==
  IF i + 1 > Len(lines) THEN NoMatch
  ELSE With(lines[i], LAMBDA l1 :
       With(Trim(lines[i + 1]), LAMBDA t :
          IF IsBlank(l1) THEN NoMatch
          ELSE IF ~AllOf(t, "=") /\ ~AllOf(t, "-") THEN NoMatch
          ELSE [ok |-> TRUE, level |-> IF AllOf(t, "=") THEN 1 ELSE 2,
                text |-> Trim(l1), nextIndex |-> i + 2]))

\* /^\s*>/
isQuoteLine(line) ==
  LET p == SkipWs(line, 1) IN p <= Len(line) /\ line[p] = ">"

\* A strip that removes every nested > prefix at once: /^(\s*>\s?)+/
RECURSIVE stripAllQuotePrefixes(_)
stripAllQuotePrefixes(line) ==
  With(SkipWs(line, 1), LAMBDA p :
  With(
              IF p + 1 <= Len(line) /\ IsWs(line[p + 1]) THEN From(line, p + 2)
              ELSE From(line, p + 1),
    LAMBDA rest :
     IF p <= Len(line) /\ line[p] = ">" THEN stripAllQuotePrefixes(rest) ELSE line))

\* line.replace(/^\s*>\s?/, "")
stripQuotePrefix(line) ==
  With(SkipWs(line, 1), LAMBDA p :
     IF p + 1 <= Len(line) /\ IsWs(line[p + 1]) THEN From(line, p + 2) ELSE From(line, p + 1))

\* The first index >= j of lines that is no quote line (Len(lines)+1 if none).
RECURSIVE QuoteRunEnd(_, _)
QuoteRunEnd(lines, j) ==
  IF j <= Len(lines) /\ isQuoteLine(lines[j]) THEN QuoteRunEnd(lines, j + 1) ELSE j

parseBlockquote(lines, i) ==
  IF ~isQuoteLine(lines[i]) THEN NoMatch
  ELSE With(QuoteRunEnd(lines, i), LAMBDA j :
          [ok |-> TRUE, type |-> "blockquote",
           lines |-> [k \in 1..(j - i) |-> stripQuotePrefix(lines[i + k - 1])],
           nextIndex |-> j])

\* \s+(.+)$ from position q of line: the text (.+) captures, after the
\* whitespace run, or the run's last character when the run ends the line.
ItemText(line, q) ==
  With(SkipWs(line, q), LAMBDA w :
     IF q > Len(line) \/ ~IsWs(line[q]) THEN NoMatch
     ELSE IF w <= Len(line) THEN [ok |-> TRUE, text |-> From(line, w)]
     ELSE IF w - q >= 2 THEN [ok |-> TRUE, text |-> <<line[Len(line)]>>]
     ELSE NoMatch)

\* /^(\s*)([-+*])\s+(.+)$/
matchBullet(line) ==
  With(SkipWs(line, 1), LAMBDA p :
  With(ItemText(line, p + 1), LAMBDA t :
     IF p <= Len(line) /\ line[p] \in {"-", "+", "*"} /\ t.ok
     THEN [ok |-> TRUE, indent |-> p - 1, text |-> t.text]
     ELSE NoMatch))

\* /^(\s*)(\d+)[.)]\s+(.+)$/
matchOrdered(line) ==
  With(SkipWs(line, 1), LAMBDA p :
  With(SkipDigits(line, p), LAMBDA d :
  With(ItemText(line, d + 1), LAMBDA t :
     IF d > p /\ d <= Len(line) /\ line[d] \in {".", ")"} /\ t.ok
     THEN [ok |-> TRUE, indent |-> p - 1, text |-> t.text]
     ELSE NoMatch)))

matchItem(line, ordered) == IF ordered THEN matchOrdered(line) ELSE matchBullet(line)

\* The while loop of parseList: the first index >= j at which the list ends.
RECURSIVE ListRunEnd(_, _, _, _)
ListRunEnd(lines, j, ordered, indent0) ==
  IF j > Len(lines) THEN j
  ELSE IF IsBlank(lines[j]) THEN j
  ELSE With(matchItem(lines[j], ordered), LAMBDA m :
          IF ~m.ok THEN j
          ELSE IF m.indent # indent0 THEN j
          ELSE ListRunEnd(lines, j + 1, ordered, indent0))

parseList(lines, i) ==
  With(matchBullet(lines[i]), LAMBDA u :
  With(matchOrdered(lines[i]), LAMBDA o :
     IF ~u.ok /\ ~o.ok THEN NoMatch
     ELSE With(o.ok, LAMBDA isOrdered :
          With(IF u.ok THEN u.indent ELSE o.indent, LAMBDA indent0 :
          With(ListRunEnd(lines, i, isOrdered, indent0), LAMBDA j :
             [ok |-> TRUE, type |-> "list", ordered |-> isOrdered,
              items |-> [k \in 1..(j - i) |-> matchItem(lines[i + k - 1], isOrdered).text],
              nextIndex |-> j])))))

MinDashes == 3

\* /^\s*:?-{3,}:?\s*$/ : one cell of a table separator line
isSepCell(c) ==
  With(SkipWs(c, 1), LAMBDA p0 :
  With(IF p0 <= Len(c) /\ c[p0] = ":" THEN p0 + 1 ELSE p0, LAMBDA p1 :
  With(SkipChar(c, p1, "-"), LAMBDA p2 :
  With(IF p2 <= Len(c) /\ c[p2] = ":" THEN p2 + 1 ELSE p2, LAMBDA p3 :
     p2 - p1 >= MinDashes /\ SkipWs(c, p3) = Len(c) + 1))))

\* /^\|?(\s*:?-{3,}:?\s*\|)+\s*:?-{3,}:?\s*\|?\s*$/
isTableSep(sep) ==
  With(IF sep # <<>> /\ sep[1] = "|" THEN Tail(sep) ELSE sep, LAMBDA s1 :
  With(Split(s1, "|"), LAMBDA parts :
  With(Len(parts), LAMBDA n :
  With(IF n >= 2 /\ IsBlank(parts[n]) THEN SubSeq(parts, 1, n - 1) ELSE parts, LAMBDA cells :
     Len(cells) >= 2 /\ \A k \in DOMAIN cells : isSepCell(cells[k])))))

\* The parseRow closure of parseTable.
parseRow(row) ==
  With(Trim(row), LAMBDA r0 :
  With(IF r0 # <<>> /\ r0[1] = "|" THEN Tail(r0) ELSE r0, LAMBDA r1 :
  With(IF r1 # <<>> /\ r1[Len(r1)] = "|" THEN SubSeq(r1, 1, Len(r1) - 1) ELSE r1, LAMBDA r2 :
  With(Split(r2, "|"), LAMBDA cs :
    [k \in DOMAIN cs |-> Trim(cs[k])]))))

\* The alignment a separator cell declares.
cellAlign(c) ==
  With(Trim(c), LAMBDA t :
  With(t # <<>> /\ t[1] = ":", LAMBDA left :
  With(t # <<>> /\ t[Len(t)] = ":", LAMBDA right :
     IF left /\ right THEN "center"
     ELSE IF right THEN "right"
     ELSE IF left THEN "left"
     ELSE "")))

\* The first index >= j that is no table row.
RECURSIVE TableRunEnd(_, _)
TableRunEnd(lines, j) ==
  IF j <= Len(lines) /\ Includes(lines[j], "|") /\ ~IsBlank(lines[j])
  THEN TableRunEnd(lines, j + 1) ELSE j

parseTable(lines, i) ==
  With(lines[i], LAMBDA headerLine :
  With(IF i + 1 <= Len(lines) THEN lines[i + 1] ELSE <<>>, LAMBDA sepLine :
     IF ~Includes(headerLine, "|") THEN NoMatch
     ELSE IF ~isTableSep(Trim(sepLine)) THEN NoMatch
     ELSE With(TableRunEnd(lines, i + 2), LAMBDA j :
          With(parseRow(sepLine), LAMBDA seps :
             [ok |-> TRUE, type |-> "table", headers |-> parseRow(headerLine),
              aligns |-> [k \in DOMAIN seps |-> cellAlign(seps[k])],
              rows |-> [k \in 1..(j - i - 2) |-> parseRow(lines[i + 1 + k])],
              nextIndex |-> j]))))

IndentWidth == 4

\* /^( {4,}|\t)/
isIndented(line) ==
  \/ Len(line) >= 1 /\ line[1] = TAB
  \/ Len(line) >= IndentWidth /\ \A k \in 1..IndentWidth : line[k] = " "

\* line.replace(/^( {4}|\t)/, "")
stripIndent(line) ==
  IF Len(line) >= 1 /\ line[1] = TAB THEN Tail(line)
  ELSE IF isIndented(line) THEN From(line, IndentWidth + 1)
  ELSE line

\* The while loop of parseIndentedCode from index j with buffer buf.
RECURSIVE IndentLoop(_, _, _)
IndentLoop(lines, j, buf) ==
  IF j > Len(lines) THEN [buf |-> buf, j |-> j]
  ELSE IF ~isIndented(lines[j]) /\ ~IsBlank(lines[j]) THEN [buf |-> buf, j |-> j]
  ELSE IF IsBlank(lines[j]) /\ buf = <<>> THEN IndentLoop(lines, j + 1, buf)
  ELSE IndentLoop(lines, j + 1, Append(buf, stripIndent(lines[j])))

parseIndentedCode(lines, i) ==
  IF ~isIndented(lines[i]) THEN NoMatch
  ELSE With(IndentLoop(lines, i, <<>>), LAMBDA r :
          [ok |-> TRUE, type |-> "code", lang |-> <<>>, content |-> r.buf,
           nextIndex |-> r.j])

\* /^(\s*)([-+*])\s+/ or /^(\s*)(\d+)[.)]\s+/ : a list marker, with or without text
isListMarker(line) ==
  With(SkipWs(line, 1), LAMBDA p :
  With(SkipDigits(line, p), LAMBDA d :
     \/ /\ p + 1 <= Len(line) /\ line[p] \in {"-", "+", "*"} /\ IsWs(line[p + 1])
     \/ /\ d > p /\ d + 1 <= Len(line) /\ line[d] \in {".", ")"} /\ IsWs(line[d + 1])))

\* The tests of parseParagraph's loop that end the paragraph before line j.
paragraphBreak(lines, j) ==
  With(lines[j], LAMBDA line :
     \/ IsBlank(line)
     \/ parseFence(line).ok \/ parseAtxHeading(line).ok \/ isThematicBreak(line)
     \/ isQuoteLine(line)
     \/ isListMarker(line)
     \/ parseTable(lines, j).ok
     \/ isIndented(line))

\* The first index >= j at which parseParagraph's loop stops.
RECURSIVE ParaRunEnd(_, _)
ParaRunEnd(lines, j) ==
  IF j > Len(lines) \/ paragraphBreak(lines, j) THEN j ELSE ParaRunEnd(lines, j + 1)

parseParagraph(lines, i) ==
  With(ParaRunEnd(lines, i), LAMBDA j :
     [ok |-> TRUE, type |-> "paragraph", lines |-> SubSeq(lines, i, j - 1),
      nextIndex |-> j])

\* A fence loop that also stops at a line that looks like a heading.
RECURSIVE FenceEndAtHeading(_, _, _)
FenceEndAtHeading(lines, j, marker) ==
  IF j > Len(lines) \/ isFenceEnd(lines[j], marker) \/ parseAtxHeading(lines[j]).ok THEN j
  ELSE FenceEndAtHeading(lines, j + 1, marker)

\* The loop of the fenced-code branch: the first index >= j that closes the
\* fence (Len(lines)+1 if none).
RECURSIVE FenceEnd(_, _, _)
FenceEnd(lines, j, marker) ==
  IF j > Len(lines) \/ isFenceEnd(lines[j], marker) THEN j
  ELSE FenceEnd(lines, j + 1, marker)

(***************************************************************************)
(* String literals of the source, as character sequences.                  *)
(***************************************************************************)
\* The entities escapeHtml and escapeAttr write.
Entity(name) ==
  CASE name = "amp" -> <<"&", "a", "m", "p", ";">>
    [] name = "lt" -> <<"&", "l", "t", ";">>
    [] name = "gt" -> <<"&", "g", "t", ";">>
    [] name = "quot" -> <<"&", "q", "u", "o", "t", ";">>
    [] name = "apos" -> <<"&", "#", "3", "9", ";">>
    [] name = "bt" -> <<"&", "#", "9", "6", ";">>
\* The schemes safeLinkHref rejects.
Blocked(name) ==
  CASE name = "javascript" -> <<"j", "a", "v", "a", "s", "c", "r", "i", "p", "t", ":">>
    [] name = "vbscript" -> <<"v", "b", "s", "c", "r", "i", "p", "t", ":">>
    [] name = "data" -> <<"d", "a", "t", "a", ":">>
\* The schemes renderInline recognises and the HTML it writes.
InlineHtml(name) ==
  CASE name = "http" -> <<"h", "t", "t", "p", ":", "/", "/">>
    [] name = "https" -> <<"h", "t", "t", "p", "s", ":", "/", "/">>
    [] name = "mailto" -> <<"m", "a", "i", "l", "t", "o", ":">>
    [] name = "codeOpen" -> <<"<", "c", "o", "d", "e", ">">>
    [] name = "codeClose" -> <<"<", "/", "c", "o", "d", "e", ">">>
    [] name = "imgSrc" -> <<"<", "i", "m", "g", " ", "s", "r", "c", "=", "\"">>
    [] name = "altAttr" -> <<"\"", " ", "a", "l", "t", "=", "\"">>
    [] name = "imgEnd" -> <<"/", ">">>
    [] name = "titleAttr" -> <<" ", "t", "i", "t", "l", "e", "=", "\"">>
    [] name = "aHref" -> <<"<", "a", " ", "h", "r", "e", "f", "=", "\"">>
    [] name = "aClose" -> <<"<", "/", "a", ">">>
    [] name = "targetRel" -> <<" ", "t", "a", "r", "g", "e", "t", "=", "\"", "_", "b", "l", "a", "n", "k", "\"", " ", "r", "e", "l", "=", "\"", "n", "o", "o", "p", "e", "n", "e", "r", " ", "n", "o", "r", "e", "f", "e", "r", "r", "e", "r", "\"">>
    [] name = "delOpen" -> <<"<", "d", "e", "l", ">">>
    [] name = "delClose" -> <<"<", "/", "d", "e", "l", ">">>
    [] name = "strongOpen" -> <<"<", "s", "t", "r", "o", "n", "g", ">">>
    [] name = "strongClose" -> <<"<", "/", "s", "t", "r", "o", "n", "g", ">">>
    [] name = "emOpen" -> <<"<", "e", "m", ">">>
    [] name = "emClose" -> <<"<", "/", "e", "m", ">">>

(***************************************************************************)
(* Utilities: escaping and the link safety policy.                         *)
(***************************************************************************)
escapeHtml(str) ==
  ReplaceLit(ReplaceLit(ReplaceLit(ReplaceLit(ReplaceLit(str,
    <<"&">>, Entity("amp")), <<"<">>, Entity("lt")), <<">">>, Entity("gt")), <<"\"">>, Entity("quot")), <<"'">>, Entity("apos"))

unescapeHtml(str) ==
  ReplaceLit(ReplaceLit(ReplaceLit(ReplaceLit(ReplaceLit(str,
    Entity("lt"), <<"<">>), Entity("gt"), <<">">>), Entity("quot"), <<"\"">>), Entity("apos"), <<"'">>), Entity("amp"), <<"&">>)

escapeAttr(str) == ReplaceLit(escapeHtml(str), <<Backtick>>, Entity("bt"))

\* String.prototype.toLowerCase, on the letters of the model
toLowerChar(c) ==
  IF c \in Upper THEN LowerSeq[CHOOSE k \in DOMAIN UpperSeq : UpperSeq[k] = c] ELSE c

toLowerCase(s) == [k \in DOMAIN s |-> toLowerChar(s[k])]

\* A policy that compares the schemes without folding the letter case.
safeLinkHrefCaseSensitive(h0, allowUnsafeLinks) ==
  With(Trim(h0), LAMBDA h :
     IF h = <<>> THEN <<>>
     ELSE IF allowUnsafeLinks THEN h
     ELSE IF StartsWith(h, Blocked("javascript")) \/ StartsWith(h, Blocked("vbscript")) THEN <<>>
     ELSE IF StartsWith(h, Blocked("data")) THEN <<>>
     ELSE h)

safeLinkHref(h0, allowUnsafeLinks) ==
  With(Trim(h0), LAMBDA h :
  With(toLowerCase(h), LAMBDA lower :
     IF h = <<>> THEN <<>>
     ELSE IF allowUnsafeLinks THEN h
     ELSE IF StartsWith(lower, Blocked("javascript")) \/ StartsWith(lower, Blocked("vbscript")) THEN <<>>
     ELSE IF StartsWith(lower, Blocked("data")) THEN <<>>
     ELSE h))

(***************************************************************************)
(* The inline renderer: eight substitution stages over the escaped text.   *)
(* Each match operator gives the match a JavaScript regular expression     *)
(* finds when it is tried at position p: [ok, end, out], end the position  *)
(* after the match and out the replacement text.                           *)
(***************************************************************************)
\* The first position >= p of s that holds c or a line feed (Len(s)+1 if none).
SkipSpan(s, p, c) == Scan(s, p, LAMBDA d : d = c \/ d = NL)

\* The first position >= p that ends a run of [^)\s]
SkipUrl(s, p) == Scan(s, p, LAMBDA c : c = ")" \/ IsWs(c))

\* The first position >= p that ends a run of [^&\s]
SkipAuto(s, p) == Scan(s, p, LAMBDA c : c = "&" \/ IsWs(c))

\* The first position >= p that ends a run of [^\s<]
SkipBare(s, p) == Scan(s, p, LAMBDA c : c = "<" \/ IsWs(c))

\* The first position e >= p with s[e] = s[e+1] = c (Len(s)+1 if none).
FindPair(s, p, c) == IndexOfLit(s, <<c, c>>, p)

\* /(^|[^`])`([^`]+)`(?!`)/
matchCode(s, p) ==
  With(p = 1 /\ s[1] = Backtick, LAMBDA atStart :
  With(p + 1 <= Len(s) /\ s[p] # Backtick /\ s[p + 1] = Backtick, LAMBDA afterChar :
  With(IF atStart THEN p + 1 ELSE p + 2, LAMBDA c0 :
  With(IndexOf(s, Backtick, c0), LAMBDA c1 :
     IF /\ atStart \/ afterChar
        /\ c1 > c0 /\ c1 <= Len(s)
        /\ (c1 + 1 > Len(s) \/ s[c1 + 1] # Backtick)
     THEN [ok |-> TRUE, end |-> c1 + 1,
           out |-> (IF atStart THEN <<>> ELSE <<s[p]>>)
                   \o InlineHtml("codeOpen") \o SubSeq(s, c0, c1 - 1) \o InlineHtml("codeClose")]
     ELSE NoMatch))))

\* /\[([^\]]{minLabel,})\]\((\s*[^)\s]+)(?:\s+"([^"]*)")?\s*\)/ with s[lb] = "["
matchBracketParen(s, lb, minLabel) ==
  With(IndexOf(s, "]", lb + 1), LAMBDA rb :
  With(rb + 2, LAMBDA u0 :
  With(SkipWs(s, u0), LAMBDA uw :
  With(SkipUrl(s, uw), LAMBDA u1 :
  With(SkipWs(s, u1), LAMBDA tw :
  With(IndexOf(s, "\"", tw + 1), LAMBDA tq :
  With(SkipWs(s, tq + 1), LAMBDA ct :
  With(
                  /\ tw > u1 /\ tw <= Len(s) /\ s[tw] = "\""
                  /\ tq <= Len(s)
                  /\ ct <= Len(s) /\ s[ct] = ")",
    LAMBDA hasTitle :
     IF /\ lb <= Len(s) /\ s[lb] = "["
        /\ rb <= Len(s) /\ rb - (lb + 1) >= minLabel
        /\ rb + 1 <= Len(s) /\ s[rb + 1] = "("
        /\ u1 > uw
        /\ hasTitle \/ (tw <= Len(s) /\ s[tw] = ")")
     THEN [ok |-> TRUE, label |-> SubSeq(s, lb + 1, rb - 1),
           url |-> SubSeq(s, u0, u1 - 1),
           title |-> IF hasTitle THEN SubSeq(s, tw + 1, tq - 1) ELSE <<>>,
           end |-> IF hasTitle THEN ct + 1 ELSE tw + 1]
     ELSE NoMatch))))))))

titleAttr(title) ==
  IF title # <<>> THEN InlineHtml("titleAttr") \o escapeAttr(title) \o <<"\"">> ELSE <<>>

targetAttr(opts) == IF opts.linkTargetBlank THEN InlineHtml("targetRel") ELSE <<>>

\* Images: /!\[([^\]]*)\]\((\s*[^)\s]+)(?:\s+"([^"]*)")?\s*\)/ and its callback
matchImage(s, p, opts) ==
  With(matchBracketParen(s, p + 1, 0), LAMBDA m :
    IF s[p] = "!" /\ m.ok
    THEN [ok |-> TRUE, end |-> m.end,
          out |-> With(safeLinkHref(unescapeHtml(m.url), opts.allowUnsafeLinks), LAMBDA href :
                    IF href = <<>> THEN <<>>
                    ELSE InlineHtml("imgSrc") \o escapeAttr(href) \o InlineHtml("altAttr")
                         \o escapeAttr(m.label) \o <<"\"">> \o titleAttr(m.title)
                         \o InlineHtml("imgEnd"))]
    ELSE NoMatch)

\* A link callback that writes the url without asking the policy.
matchLinkUnchecked(s, p, opts) ==
  With(matchBracketParen(s, p, 1), LAMBDA m :
    IF m.ok
    THEN [ok |-> TRUE, end |-> m.end,
          out |-> InlineHtml("aHref") \o escapeAttr(Trim(unescapeHtml(m.url))) \o <<"\"">>
                  \o titleAttr(m.title) \o targetAttr(opts) \o <<">">> \o m.label
                  \o InlineHtml("aClose")]
    ELSE NoMatch)

\* Links: /\[([^\]]+)\]\((\s*[^)\s]+)(?:\s+"([^"]*)")?\s*\)/ and its callback
matchLink(s, p, opts) ==
  With(matchBracketParen(s, p, 1), LAMBDA m :
    IF m.ok
    THEN [ok |-> TRUE, end |-> m.end,
          out |-> With(safeLinkHref(unescapeHtml(m.url), opts.allowUnsafeLinks), LAMBDA href :
                    InlineHtml("aHref") \o escapeAttr(IF href = <<>> THEN <<"#">> ELSE href)
                    \o <<"\"">> \o titleAttr(m.title) \o targetAttr(opts) \o <<">">>
                    \o m.label \o InlineHtml("aClose"))]
    ELSE NoMatch)

\* The length of the scheme (https?:\/\/|mailto:) at position p of s, letter
\* case ignored when ci; 0 when there is none.
schemeLen(s, p, ci, withMailto) ==
  With(IF ci THEN toLowerCase(From(s, p)) ELSE From(s, p), LAMBDA t :
     IF StartsWith(t, InlineHtml("https")) THEN Len(InlineHtml("https"))
     ELSE IF StartsWith(t, InlineHtml("http")) THEN Len(InlineHtml("http"))
     ELSE IF withMailto /\ StartsWith(t, InlineHtml("mailto")) THEN Len(InlineHtml("mailto"))
     ELSE 0)

\* Autolinks: /&lt;((https?:\/\/|mailto:)[^&\s]+)&gt;/gi and its callback
matchAutolink(s, p, opts) ==
  With(p + Len(Entity("lt")), LAMBDA q :
  With(schemeLen(s, q, TRUE, TRUE), LAMBDA n :
  With(SkipAuto(s, q + n), LAMBDA e :
  With(SubSeq(s, q, e - 1), LAMBDA url :
  With(safeLinkHref(unescapeHtml(url), opts.allowUnsafeLinks), LAMBDA h0 :
  With(IF h0 = <<>> THEN <<"#">> ELSE h0, LAMBDA h :
     IF StartsWithAt(s, p, Entity("lt")) /\ n > 0 /\ e > q + n /\ StartsWithAt(s, e, Entity("gt"))
     THEN [ok |-> TRUE, end |-> e + Len(Entity("gt")),
           out |-> InlineHtml("aHref") \o escapeAttr(h) \o <<"\"">> \o targetAttr(opts)
                   \o <<">">> \o url \o InlineHtml("aClose")]
     ELSE NoMatch))))))

\* Bare URLs: /(^|[\s(])((https?:\/\/)[^\s<]+)/g and its callback
matchBareUrl(s, p, opts) ==
  With(p = 1 /\ schemeLen(s, 1, FALSE, FALSE) > 0, LAMBDA atStart :
  With(IF atStart THEN p ELSE p + 1, LAMBDA q :
  With(IF atStart THEN <<>> ELSE <<s[p]>>, LAMBDA p1 :
  With(schemeLen(s, q, FALSE, FALSE), LAMBDA n :
  With(SkipBare(s, q + n), LAMBDA e :
  With(SubSeq(s, q, e - 1), LAMBDA url :
  With(safeLinkHref(unescapeHtml(url), opts.allowUnsafeLinks), LAMBDA h :
     IF /\ atStart \/ IsWs(s[p]) \/ s[p] = "("
        /\ n > 0 /\ e > q + n
     THEN [ok |-> TRUE, end |-> e,
           out |-> IF h = <<>> THEN p1 \o url
                   ELSE p1 \o InlineHtml("aHref") \o escapeAttr(h) \o <<"\"">> \o targetAttr(opts)
                        \o <<">">> \o url \o InlineHtml("aClose")]
     ELSE NoMatch)))))))

\* Strikethrough: /~~([^~\n]+)~~/g -> <del>$1</del>
matchStrike(s, p) ==
  With(SkipSpan(s, p + 2, "~"), LAMBDA c1 :
     IF /\ StartsWithAt(s, p, <<"~", "~">>)
        /\ c1 > p + 2 /\ StartsWithAt(s, c1, <<"~", "~">>)
     THEN [ok |-> TRUE, end |-> c1 + 2,
           out |-> InlineHtml("delOpen") \o SubSeq(s, p + 2, c1 - 1) \o InlineHtml("delClose")]
     ELSE NoMatch)

\* Bold: /\*\*([\s\S]+?)\*\*/g or /__([\s\S]+?)__/g -> <strong>$1</strong>
matchBold(s, p, c) ==
  With(FindPair(s, p + 3, c), LAMBDA e :
     IF StartsWithAt(s, p, <<c, c>>) /\ e <= Len(s)
     THEN [ok |-> TRUE, end |-> e + 2,
           out |-> InlineHtml("strongOpen") \o SubSeq(s, p + 2, e - 1) \o InlineHtml("strongClose")]
     ELSE NoMatch)

\* Italic: /(^|[^*])\*([^*\n]+)\*(?!\*)/g or the same with _ -> $1<em>$2</em>
matchItalic(s, p, c) ==
  With(p = 1 /\ s[1] = c, LAMBDA atStart :
  With(p + 1 <= Len(s) /\ s[p] # c /\ s[p + 1] = c, LAMBDA afterChar :
  With(IF atStart THEN p + 1 ELSE p + 2, LAMBDA c0 :
  With(SkipSpan(s, c0, c), LAMBDA c1 :
     IF /\ atStart \/ afterChar
        /\ c1 > c0 /\ c1 <= Len(s) /\ s[c1] = c
        /\ (c1 + 1 > Len(s) \/ s[c1 + 1] # c)
     THEN [ok |-> TRUE, end |-> c1 + 1,
           out |-> (IF atStart THEN <<>> ELSE <<s[p]>>)
                   \o InlineHtml("emOpen") \o SubSeq(s, c0, c1 - 1) \o InlineHtml("emClose")]
     ELSE NoMatch))))

matchAt(stage, s, p, opts) ==
  CASE stage = "code" -> matchCode(s, p)
    [] stage = "image" -> matchImage(s, p, opts)
    [] stage = "link" -> matchLink(s, p, opts)
    [] stage = "autolink" -> matchAutolink(s, p, opts)
    [] stage = "bareurl" -> matchBareUrl(s, p, opts)
    [] stage = "strike" -> matchStrike(s, p)
    [] stage = "bold*" -> matchBold(s, p, "*")
    [] stage = "bold_" -> matchBold(s, p, "_")
    [] stage = "italic*" -> matchItalic(s, p, "*")
    [] stage = "italic_" -> matchItalic(s, p, "_")

\* String.prototype.replace with a global regular expression, given the
\* match ms[q] of the pattern at each position q of s: the leftmost match
\* from p on is replaced and the scan resumes after it.
RECURSIVE replaceMatches(_, _, _)
replaceMatches(s, p, ms) ==
  IF \E q \in p..Len(s) : ms[q].ok
  THEN With(CHOOSE q \in p..Len(s) : ms[q].ok /\ \A r \in p..(q - 1) : ~ms[r].ok,
            LAMBDA q : SubSeq(s, p, q - 1) \o ms[q].out \o replaceMatches(s, ms[q].end, ms))
  ELSE From(s, p)

replaceAll(stage, s, p, opts) ==
  replaceMatches(s, p, [q \in DOMAIN s |-> matchAt(stage, s, q, opts)])

InlineStages == <<"code", "image", "link", "autolink", "bareurl", "strike",
                  "bold*", "bold_", "italic*", "italic_">>

\* The replacements InlineStages[from..to] applied to s in turn.
RECURSIVE applyStages(_, _, _, _)
applyStages(s, from, to, opts) ==
  IF from > to THEN s
  ELSE applyStages(replaceAll(InlineStages[from], s, 1, opts), from + 1, to, opts)

renderInline(text, opts) == applyStages(escapeHtml(text), 1, Len(InlineStages), opts)

(***************************************************************************)
(* The block renderer.                                                     *)
(***************************************************************************)
\* The HTML renderBlock writes, and the alignments parseTable names.
BlockHtml(name) ==
  CASE name = "hr" -> <<"<", "h", "r", "/", ">">>
    [] name = "preCode" -> <<"<", "p", "r", "e", ">", "<", "c", "o", "d", "e">>
    [] name = "langClass" -> <<" ", "c", "l", "a", "s", "s", "=", "\"", "l", "a", "n", "g", "u", "a", "g", "e", "-">>
    [] name = "codePreClose" -> <<"<", "/", "c", "o", "d", "e", ">", "<", "/", "p", "r", "e", ">">>
    [] name = "bqOpen" -> <<"<", "b", "l", "o", "c", "k", "q", "u", "o", "t", "e", ">">>
    [] name = "bqClose" -> <<"<", "/", "b", "l", "o", "c", "k", "q", "u", "o", "t", "e", ">">>
    [] name = "liOpen" -> <<"<", "l", "i", ">">>
    [] name = "liClose" -> <<"<", "/", "l", "i", ">">>
    [] name = "liTask" -> <<"<", "l", "i", " ", "c", "l", "a", "s", "s", "=", "\"", "t", "a", "s", "k", "-", "l", "i", "s", "t", "-", "i", "t", "e", "m", "\"", ">">>
    [] name = "checkbox" -> <<"<", "i", "n", "p", "u", "t", " ", "t", "y", "p", "e", "=", "\"", "c", "h", "e", "c", "k", "b", "o", "x", "\"", " ", "d", "i", "s", "a", "b", "l", "e", "d">>
    [] name = "checked" -> <<" ", "c", "h", "e", "c", "k", "e", "d">>
    [] name = "checkboxEnd" -> <<"/", ">", " ">>
    [] name = "alignStyle" -> <<" ", "s", "t", "y", "l", "e", "=", "\"", "t", "e", "x", "t", "-", "a", "l", "i", "g", "n", ":">>
    [] name = "alignEnd" -> <<";", "\"">>
    [] name = "th" -> <<"<", "t", "h">>
    [] name = "thClose" -> <<"<", "/", "t", "h", ">">>
    [] name = "td" -> <<"<", "t", "d">>
    [] name = "tdClose" -> <<"<", "/", "t", "d", ">">>
    [] name = "tr" -> <<"<", "t", "r", ">">>
    [] name = "trClose" -> <<"<", "/", "t", "r", ">">>
    [] name = "tableHead" -> <<"<", "t", "a", "b", "l", "e", ">", "<", "t", "h", "e", "a", "d", ">", "<", "t", "r", ">">>
    [] name = "tableMid" -> <<"<", "/", "t", "r", ">", "<", "/", "t", "h", "e", "a", "d", ">", "<", "t", "b", "o", "d", "y", ">">>
    [] name = "tableEnd" -> <<"<", "/", "t", "b", "o", "d", "y", ">", "<", "/", "t", "a", "b", "l", "e", ">">>
    [] name = "pOpen" -> <<"<", "p", ">">>
    [] name = "pClose" -> <<"<", "/", "p", ">">>
    [] name = "br" -> <<"<", "b", "r", "/", ">">>
    [] name = "center" -> <<"c", "e", "n", "t", "e", "r">>
    [] name = "right" -> <<"r", "i", "g", "h", "t">>
    [] name = "left" -> <<"l", "e", "f", "t">>

\* Array.prototype.join(""): the concatenation of the sequences of ss.
RECURSIVE Concat(_)
Concat(ss) == IF ss = <<>> THEN <<>> ELSE ss[1] \o Concat(Tail(ss))

LevelChar == <<"1", "2", "3", "4", "5", "6">>

\* /^\[( |x|X)\]\s+(.*)$/ on a list item
matchTask(it) ==
  IF /\ Len(it) >= 4 /\ it[1] = "[" /\ it[2] \in {" ", "x", "X"} /\ it[3] = "]"
     /\ IsWs(it[4])
  THEN [ok |-> TRUE, checked |-> toLowerChar(it[2]) = "x", text |-> From(it, SkipWs(it, 4))]
  ELSE NoMatch

renderItem(it, opts) ==
  With(matchTask(it), LAMBDA m :
     IF m.ok
     THEN BlockHtml("liTask") \o BlockHtml("checkbox") \o (IF m.checked THEN BlockHtml("checked") ELSE <<>>)
          \o BlockHtml("checkboxEnd") \o renderInline(m.text, opts) \o BlockHtml("liClose")
     ELSE BlockHtml("liOpen") \o renderInline(it, opts) \o BlockHtml("liClose"))

alignName(a) ==
  CASE a = "center" -> BlockHtml("center") [] a = "right" -> BlockHtml("right") [] a = "left" -> BlockHtml("left")
    [] OTHER -> <<>>

\* The style attribute of column idx (block.aligns[idx] may be undefined).
alignAttr(aligns, idx) ==
  IF idx \in DOMAIN aligns /\ aligns[idx] # ""
  THEN BlockHtml("alignStyle") \o alignName(aligns[idx]) \o BlockHtml("alignEnd") ELSE <<>>

renderCells(cells, aligns, open, close, opts) ==
  Concat([k \in DOMAIN cells |->
            open \o alignAttr(aligns, k) \o <<">">> \o renderInline(cells[k], opts) \o close])

\* renderBlock for every block type but "blockquote", which recurses.
renderBlock(block, opts) ==
  CASE block.type = "heading" ->
         <<"<", "h", LevelChar[block.level], ">">> \o renderInline(block.text, opts)
         \o <<"<", "/", "h", LevelChar[block.level], ">">>
    [] block.type = "hr" -> BlockHtml("hr")
    [] block.type = "code" ->
         BlockHtml("preCode")
         \o (IF block.lang # <<>>
             THEN BlockHtml("langClass") \o escapeAttr(block.lang) \o <<"\"">> ELSE <<>>)
         \o <<">">> \o escapeHtml(Join(block.content, NL)) \o BlockHtml("codePreClose")
    [] block.type = "list" ->
         With(IF block.ordered THEN <<"o", "l">> ELSE <<"u", "l">>, LAMBDA tag :
            <<"<">> \o tag \o <<">">>
            \o Concat([k \in DOMAIN block.items |-> renderItem(block.items[k], opts)])
            \o <<"<", "/">> \o tag \o <<">">>)
    [] block.type = "table" ->
         BlockHtml("tableHead") \o renderCells(block.headers, block.aligns, BlockHtml("th"), BlockHtml("thClose"), opts)
         \o BlockHtml("tableMid")
         \o Concat([k \in DOMAIN block.rows |->
                      BlockHtml("tr") \o renderCells(block.rows[k], block.aligns, BlockHtml("td"), BlockHtml("tdClose"), opts)
                      \o BlockHtml("trClose")])
         \o BlockHtml("tableEnd")
    [] block.type = "paragraph" ->
         BlockHtml("pOpen") \o ReplaceLit(renderInline(Join(block.lines, NL), opts), <<NL>>, BlockHtml("br"))
         \o BlockHtml("pClose")

(***************************************************************************)
(* addRelTargetToLinks: the rewrite of the <a ...> tags of an HTML text.   *)
(***************************************************************************)
\* The attribute names and texts addRelTargetToLinks and the adapter use.
AnchorHtml(name) ==
  CASE name = "target" -> <<"t", "a", "r", "g", "e", "t">>
    [] name = "rel" -> <<"r", "e", "l">>
    [] name = "href" -> <<"h", "r", "e", "f">>
    [] name = "targetBlank" -> <<" ", "t", "a", "r", "g", "e", "t", "=", "\"", "_", "b", "l", "a", "n", "k", "\"">>
    [] name = "relDefault" -> <<" ", "r", "e", "l", "=", "\"", "n", "o", "o", "p", "e", "n", "e", "r", " ", "n", "o", "r", "e", "f", "e", "r", "r", "e", "r", "\"">>
    [] name = "relOpen" -> <<"r", "e", "l", "=", "\"">>
    [] name = "noopener" -> <<"n", "o", "o", "p", "e", "n", "e", "r">>
    [] name = "noreferrer" -> <<"n", "o", "r", "e", "f", "e", "r", "r", "e", "r">>
    [] name = "aOpen" -> <<"<", "a">>

\* \w of a regular expression
IsWordChar(c) == c \in Lower \cup Upper \cup Digits \cup {"_"}

\* /\bname\s*=\s*["']([^"']*)["']/i tried at position p of a
matchAttrAt(a, p, name) ==
  With(SkipWs(a, p + Len(name)), LAMBDA eq :
  With(SkipWs(a, eq + 1), LAMBDA q1 :
  With(Scan(a, q1 + 1, LAMBDA c : c \in {"\"", "'"}), LAMBDA q2 :
    IF /\ p = 1 \/ ~IsWordChar(a[p - 1])
       /\ StartsWith(toLowerCase(From(a, p)), name)
       /\ eq <= Len(a) /\ a[eq] = "="
       /\ q1 <= Len(a) /\ a[q1] \in {"\"", "'"}
       /\ q2 <= Len(a)
    THEN [ok |-> TRUE, from |-> p, to |-> q2, value |-> SubSeq(a, q1 + 1, q2 - 1)]
    ELSE NoMatch)))

\* The first of the matches ms (one for each position), NoMatch if none
FirstMatch(ms) ==
  IF \E p \in DOMAIN ms : ms[p].ok
  THEN ms[CHOOSE p \in DOMAIN ms : ms[p].ok /\ \A r \in 1..(p - 1) : ~ms[r].ok]
  ELSE NoMatch

\* String.prototype.match: the first match of the pattern in a
matchAttr(a, name) == FirstMatch([p \in DOMAIN a |-> matchAttrAt(a, p, name)])

\* relVal.split(/\s+/).filter(Boolean)
RECURSIVE Words(_)
Words(v) ==
  With(SkipWs(v, 1), LAMBDA b :
  With(Scan(v, b, IsWs), LAMBDA e :
     IF b > Len(v) THEN <<>>
     ELSE <<SubSeq(v, b, e - 1)>> \o Words(From(v, e))))

InSeq(x, q) == \E k \in DOMAIN q : q[k] = x

\* String.prototype.replace(text, rep) for a literal text: its first
\* occurrence only
ReplaceFirst(a, text, rep) ==
  With(IndexOfLit(a, text, 1), LAMBDA q :
     IF q > Len(a) THEN a
     ELSE SubSeq(a, 1, q - 1) \o rep \o From(a, q + Len(text)))

\* parts with the word added when it is not among them
WithWord(parts, word) == IF InSeq(word, parts) THEN parts ELSE Append(parts, word)

\* The attribute text a with its rel attribute made to hold both words,
\* relMatch being the match of the rel pattern in a.
ensureRel(a, relMatch) ==
  IF relMatch.ok
  THEN ReplaceFirst(a, SubSeq(a, relMatch.from, relMatch.to),
         AnchorHtml("relOpen")
         \o escapeAttr(Join(WithWord(WithWord(Words(relMatch.value), AnchorHtml("noopener")),
                                     AnchorHtml("noreferrer")), " "))
         \o <<"\"">>)
  ELSE a \o AnchorHtml("relDefault")

\* The callback of addRelTargetToLinks on the attribute text of one tag.
rewriteAnchorAttrs(attrs) ==
  With(IF matchAttr(attrs, AnchorHtml("target")).ok THEN attrs
       ELSE attrs \o AnchorHtml("targetBlank"),
       LAMBDA a : ensureRel(a, matchAttr(a, AnchorHtml("rel"))))

\* /<a\b([^>]*?)>/gi tried at position p of s, and its callback
matchAnchorTag(s, p) ==
  With(IndexOf(s, ">", p + 2), LAMBDA q :
    IF /\ p + 1 <= Len(s) /\ s[p] = "<" /\ toLowerChar(s[p + 1]) = "a"
       /\ p + 2 <= Len(s) /\ ~IsWordChar(s[p + 2])
       /\ q <= Len(s)
    THEN [ok |-> TRUE, end |-> q + 1,
          out |-> AnchorHtml("aOpen") \o rewriteAnchorAttrs(SubSeq(s, p + 2, q - 1)) \o <<">">>]
    ELSE NoMatch)

addRelTargetToLinks(html, linkTargetBlank) ==
  IF ~linkTargetBlank THEN html
  ELSE replaceMatches(html, 1, [p \in DOMAIN html |-> matchAnchorTag(html, p)])

(***************************************************************************)
(* The markdown-it adapter.  The engine is not part of the repository: its *)
(* parse of the source is a token list drawn from TokenDocs, and its       *)
(* renderer writes a link_open token as "<a" and the token's attributes.   *)
(***************************************************************************)
PluginNames == <<"markdownitFootnote", "markdownitTaskLists", "markdownitDeflist",
                 "markdownitSub", "markdownitSup", "markdownitMark", "markdownitAbbr",
                 "markdownitAttrs", "markdownitContainer">>
Plugins == DOMAIN PluginNames

\* What window[globalName] can be: nothing, a function, an object with a
\* function under "default", or another object; "!" marks a function whose
\* registration with mdIt.use throws.
GlobalKinds == {"undefined", "function", "function!", "default", "default!", "object"}
Registers(kind) == kind \in {"function", "default"}
Throws(kind) == kind \in {"function!", "default!"}

\* token.attrIndex("href"): the index of the first attribute of that name, 0 if none
attrIndex(attrs, name) ==
  IF \E k \in DOMAIN attrs : attrs[k].name = name
  THEN CHOOSE k \in DOMAIN attrs :
         attrs[k].name = name /\ \A j \in 1..(k - 1) : attrs[j].name # name
  ELSE 0

\* self.renderToken for a link_open token
defaultRender(token) ==
  AnchorHtml("aOpen")
  \o Concat([k \in DOMAIN token.attrs |->
               <<" ">> \o token.attrs[k].name \o <<"=", "\"">>
               \o escapeHtml(token.attrs[k].value) \o <<"\"">>])
  \o <<">">>

\* A link_open rule that validates nothing.
safeLinkOpenKeepsHref(token) == defaultRender(token)

\* The link_open rule the adapter installs.
safeLinkOpen(token) ==
  With(attrIndex(token.attrs, AnchorHtml("href")), LAMBDA hrefIdx :
  With(safeLinkHref(token.attrs[hrefIdx].value, FALSE), LAMBDA safe :
     IF hrefIdx >= 1
     THEN defaultRender([token EXCEPT !.attrs[hrefIdx].value =
                                        IF safe = <<>> THEN <<"#">> ELSE safe])
     ELSE defaultRender(token)))

\* The engine's rendering of one token under the link_open rule in force.
renderToken(token, rule) ==
  CASE token.kind = "link_open" ->
         IF rule = "safe" THEN safeLinkOpen(token) ELSE defaultRender(token)
    [] token.kind = "link_close" -> InlineHtml("aClose")
    [] token.kind = "text" -> escapeHtml(token.content)
    [] token.kind = "html_inline" -> token.content

(***************************************************************************)
(* The fallback engine as a state machine.  A frame is one activation of   *)
(* fallbackMdToHtml: its lines, its cursor i, the blocks pushed so far,    *)
(* the index r of the block being rendered and the HTML joined so far.     *)
(* spans and origin are history: the lines each block consumed, and the    *)
(* line of the outermost call each line of the frame comes from.           *)
(***************************************************************************)
DefaultOpts == [allowHtml |-> FALSE, allowUnsafeLinks |-> FALSE, linkTargetBlank |-> TRUE]

\* window.markdownit is undefined: renderWithMarkdownIt returns null
NoEngine == [pc |-> "absent"]
NoCall == [fn |-> "none"]

NewFrame(md, origin) ==
  [lines |-> splitLines(md), i |-> 1, blocks |-> <<>>, spans |-> <<>>,
   origin |-> origin, r |-> 1, out |-> <<>>]

Top == stack[Len(stack)]
Depth == Len(stack) - 1

\* A loop body that tries the list classifier before the headings and the
\* thematic break.
ClassifyListFirst(lines, i) ==
  With(lines[i], LAMBDA line :
     IF IsBlank(line) THEN "blank"
     ELSE IF parseFence(line).ok THEN "fence"
     ELSE IF parseIndentedCode(lines, i).ok THEN "indented"
     ELSE IF parseList(lines, i).ok THEN "list"
     ELSE IF parseSetextHeading(lines, i).ok THEN "setext"
     ELSE IF parseAtxHeading(line).ok THEN "atx"
     ELSE IF isThematicBreak(line) THEN "hr"
     ELSE IF parseBlockquote(lines, i).ok THEN "blockquote"
     ELSE IF parseTable(lines, i).ok THEN "table"
     ELSE "paragraph")

\* The branch the loop body of fallbackMdToHtml takes at cursor i.
Classify(lines, i) ==
  With(lines[i], LAMBDA line :
     IF IsBlank(line) THEN "blank"
     ELSE IF parseFence(line).ok THEN "fence"
     ELSE IF parseIndentedCode(lines, i).ok THEN "indented"
     ELSE IF parseSetextHeading(lines, i).ok THEN "setext"
     ELSE IF parseAtxHeading(line).ok THEN "atx"
     ELSE IF isThematicBreak(line) THEN "hr"
     ELSE IF parseBlockquote(lines, i).ok THEN "blockquote"
     ELSE IF parseTable(lines, i).ok THEN "table"
     ELSE IF parseList(lines, i).ok THEN "list"
     ELSE "paragraph")

Segmenting == result = <<"running">> /\ Top.i <= Len(Top.lines)
Rendering == result = <<"running">> /\ Top.i > Len(Top.lines)
At(kind) == Segmenting /\ Classify(Top.lines, Top.i) = kind

\* A push that moves the cursor one line too far.
PushSkipping(block, next) ==
  /\ stack' = [stack EXCEPT ![Len(stack)] =
                 [@ EXCEPT !.blocks = Append(@, block),
                           !.spans = Append(@, [from |-> Top.i, to |-> next - 1]),
                           !.i = next + 1]]
  /\ placed' = placed \cup
       {[line |-> Top.origin[k], depth |-> Depth, type |-> block.type,
         blk |-> Len(Top.blocks) + 1] : k \in Top.i..(next - 1)}
  /\ UNCHANGED <<options, result, dlg, call>>

\* blocks.push(block); i = next
Push(block, next) ==
  /\ stack' = [stack EXCEPT ![Len(stack)] =
                 [@ EXCEPT !.blocks = Append(@, block),
                           !.spans = Append(@, [from |-> Top.i, to |-> next - 1]),
                           !.i = next]]
  /\ placed' = placed \cup
       {[line |-> Top.origin[k], depth |-> Depth, type |-> block.type,
         blk |-> Len(Top.blocks) + 1] : k \in Top.i..(next - 1)}
  /\ UNCHANGED <<options, result, dlg, call>>

MaxLines == 3
MaxBlocks == 4

\* The lines the inputs are made of: one or more of each kind the segmenter
\* tells apart, and the near misses of the list and table patterns.
LinePool ==
  { <<>>,
    <<Backtick, Backtick, Backtick>>,
    <<"#", " ", "a">>,
    <<"-", "-", "-">>,
    <<"=", "=", "=">>,
    <<"a">>,
    <<">", " ", "a">>,
    <<">", " ", ">", " ", "a">>,
    <<">", " ", "=", "=", "=">>,
    <<"-", " ", "a">>,
    <<"-", " ">>,
    <<" ", " ", " ", " ", "a">>,
    <<"a", "|", "b">>,
    <<"-", "-", "-", "|", "-", "-", "-">>,
    <<"-", " ", "-", " ", "-">>,
    <<Backtick, Backtick, Backtick, Backtick>> }

RECURSIVE SeqsUpTo(_, _)
SeqsUpTo(S, n) ==
  IF n = 0 THEN {<<>>}
  ELSE LET shorter == SeqsUpTo(S, n - 1)
       IN shorter \cup {Append(q, x) : q \in {t \in shorter : Len(t) = n - 1}, x \in S}

Inputs == {Join(ls, NL) : ls \in SeqsUpTo(LinePool, MaxLines) \ {<<>>}}

\* One-line documents with inline links, images and text that needs
\* escaping, rendered under every setting of the options the fallback
\* engine reads.
LinkDocs ==
  { <<"[", "a", "]", "(", "u", ")">>,
    <<"[", "a", "]", "(", "u", ")", " ", "[", "b", "]", "(", "v", ")">>,
    <<"[", "x", "]", "(", "j", "a", "v", "a", "s", "c", "r", "i", "p", "t", ":", "a", ")">>,
    <<"!", "[", "&", "]", "(", "u", ")">>,
    <<">", " ", "&">> }

FallbackOptions ==
  {[DefaultOpts EXCEPT !.allowUnsafeLinks = u, !.linkTargetBlank = t] : u, t \in BOOLEAN}

\* mdToHtml(md, options) on a page without markdown-it: the adapter returned
\* null and fallbackMdToHtml(md, opts) has split the lines.
Init ==
  /\ \E md \in Inputs \cup LinkDocs, o \in FallbackOptions :
       /\ o = DefaultOpts \/ md \in LinkDocs
       /\ options = o
       /\ stack = <<NewFrame(md, [k \in 1..Len(splitLines(md)) |-> k])>>
  /\ result = <<"running">>
  /\ placed = {}
  /\ dlg = NoEngine
  /\ call = NoCall

\* if (!line.trim()) { i++; continue; }
SkipBlank ==
  /\ At("blank")
  /\ stack' = [stack EXCEPT ![Len(stack)].i = @ + 1]
  /\ UNCHANGED <<options, result, placed, dlg, call>>

FencedCode ==
  /\ At("fence")
  /\ With(parseFence(Top.lines[Top.i]), LAMBDA fence :
     With(FenceEnd(Top.lines, Top.i + 1, fence.marker), LAMBDA j :
        Push([type |-> "code", lang |-> fence.lang,
              content |-> SubSeq(Top.lines, Top.i + 1, j - 1)],
             IF j <= Len(Top.lines) THEN j + 1 ELSE j)))

IndentedCode ==
  /\ At("indented")
  /\ With(parseIndentedCode(Top.lines, Top.i), LAMBDA b :
        Push([type |-> "code", lang |-> b.lang, content |-> b.content], b.nextIndex))

SetextHeading ==
  /\ At("setext")
  /\ With(parseSetextHeading(Top.lines, Top.i), LAMBDA h :
        Push([type |-> "heading", level |-> h.level, text |-> h.text], h.nextIndex))

AtxHeading ==
  /\ At("atx")
  /\ With(parseAtxHeading(Top.lines[Top.i]), LAMBDA h :
        Push([type |-> "heading", level |-> h.level, text |-> h.text], Top.i + 1))

ThematicBreak ==
  /\ At("hr")
  /\ Push([type |-> "hr"], Top.i + 1)

Blockquote ==
  /\ At("blockquote")
  /\ With(parseBlockquote(Top.lines, Top.i), LAMBDA b :
        Push([type |-> "blockquote", lines |-> b.lines], b.nextIndex))

Table ==
  /\ At("table")
  /\ With(parseTable(Top.lines, Top.i), LAMBDA b :
        Push([type |-> "table", headers |-> b.headers, aligns |-> b.aligns,
              rows |-> b.rows], b.nextIndex))

List ==
  /\ At("list")
  /\ With(parseList(Top.lines, Top.i), LAMBDA b :
        Push([type |-> "list", ordered |-> b.ordered, items |-> b.items], b.nextIndex))

\* parseParagraph always returns a block, so the single-line fallback after it
\* is never reached.  The block list is capped: when parseParagraph consumes
\* nothing the loop would push without end.
Paragraph ==
  /\ At("paragraph")
  /\ Len(Top.blocks) < MaxBlocks
  /\ With(parseParagraph(Top.lines, Top.i), LAMBDA b :
        Push([type |-> "paragraph", lines |-> b.lines], b.nextIndex))

\* blocks.map(b => renderBlock(b, opts)).join("\n"), one block at a time
Joined(out, r, html) == IF r = 1 THEN html ELSE out \o <<NL>> \o html

RenderLeaf ==
  /\ Rendering
  /\ Top.r <= Len(Top.blocks)
  /\ Top.blocks[Top.r].type # "blockquote"
  /\ stack' = [stack EXCEPT ![Len(stack)] =
                 [@ EXCEPT !.out = Joined(@, Top.r, renderBlock(Top.blocks[Top.r], options)),
                           !.r = @ + 1]]
  /\ UNCHANGED <<options, result, placed, dlg, call>>

\* case "blockquote": the recursive call fallbackMdToHtml(block.lines.join("\n"))
RenderQuoteCall ==
  /\ Rendering
  /\ Top.r <= Len(Top.blocks)
  /\ Top.blocks[Top.r].type = "blockquote"
  /\ With(Top.spans[Top.r], LAMBDA sp :
        stack' = Append(stack,
                   NewFrame(Join(Top.blocks[Top.r].lines, NL),
                            [k \in 1..(sp.to - sp.from + 1) |-> Top.origin[sp.from + k - 1]])))
  /\ UNCHANGED <<options, result, placed, dlg, call>>

\* The recursive call returns: "<blockquote>" + inner + "</blockquote>"
RenderQuoteReturn ==
  /\ Rendering
  /\ Top.r > Len(Top.blocks)
  /\ Len(stack) > 1
  /\ With(stack[Len(stack) - 1], LAMBDA caller :
     With(BlockHtml("bqOpen") \o Top.out \o BlockHtml("bqClose"), LAMBDA html :
        stack' = Append(SubSeq(stack, 1, Len(stack) - 2),
                        [caller EXCEPT !.out = Joined(@, caller.r, html), !.r = @ + 1])))
  /\ UNCHANGED <<options, result, placed, dlg, call>>

\* The outermost call returns its HTML.
Finish ==
  /\ Rendering
  /\ Top.r > Len(Top.blocks)
  /\ Len(stack) = 1
  /\ result' = <<"done", Top.out>>
  /\ UNCHANGED <<options, stack, placed, dlg, call>>

Next ==
  \/ SkipBlank \/ FencedCode \/ IndentedCode \/ SetextHeading \/ AtxHeading
  \/ ThematicBreak \/ Blockquote \/ Table \/ List \/ Paragraph
  \/ RenderLeaf \/ RenderQuoteCall \/ RenderQuoteReturn \/ Finish

Spec == Init /\ [][Next]_vars

(***************************************************************************)
(* mdToHtml on a page with markdown-it: renderWithMarkdownIt creates the   *)
(* engine, registers the plugins found on window, installs the link_open   *)
(* rule, renders, and rewrites the anchors.                                *)
(***************************************************************************)
MaxPresent == 2

EmptyWindow == [k \in Plugins |-> "undefined"]

\* The pages: at most MaxPresent of the nine globals are defined.
Windows ==
  UNION {{[k \in Plugins |-> IF k \in P THEN f[k] ELSE "undefined"] :
            f \in [P -> GlobalKinds \ {"undefined"}]} :
         P \in {Q \in SUBSET Plugins : Cardinality(Q) <= MaxPresent}}

AllOptions ==
  {[allowHtml |-> h, allowUnsafeLinks |-> u, linkTargetBlank |-> t] : h, u, t \in BOOLEAN}

Attr(name, value) == [name |-> name, value |-> value]
LinkOpen(attrs) == [kind |-> "link_open", attrs |-> attrs]
LinkClose == [kind |-> "link_close"]
Text(content) == [kind |-> "text", content |-> content]
HtmlInline(content) == [kind |-> "html_inline", content |-> content]

S_title == <<"t", "i", "t", "l", "e">>
U_plain == <<"u">>
U_script == <<"j", "a", "v", "a", "s", "c", "r", "i", "p", "t", ":", "x">>
U_scriptMixed == <<" ", "J", "a", "V", "a", "S", "c", "r", "i", "p", "t", ":", "x">>

\* The token lists the engine hands to its renderer.  html_inline tokens
\* exist only when the engine was created with html: true.
TokenDocs(allowHtml) ==
  { <<Text(<<"a">>)>>,
    <<LinkOpen(<<Attr(AnchorHtml("href"), U_plain)>>), Text(<<"a">>), LinkClose>>,
    <<LinkOpen(<<Attr(AnchorHtml("href"), U_script)>>), Text(<<"a">>), LinkClose>>,
    <<LinkOpen(<<Attr(S_title, <<"t">>), Attr(AnchorHtml("href"), U_scriptMixed)>>), Text(<<"a">>), LinkClose>>,
    <<LinkOpen(<<Attr(AnchorHtml("href"), U_plain), Attr(AnchorHtml("rel"), <<"n", "o", "f", "o", "l", "l", "o", "w">>)>>), Text(<<"a">>), LinkClose>>,
    <<LinkOpen(<<Attr(AnchorHtml("href"), U_plain), Attr(AnchorHtml("target"), <<"_", "s", "e", "l", "f">>)>>), Text(<<"a">>), LinkClose>>,
    <<LinkOpen(<<Attr(S_title, <<"t">>)>>), Text(<<"a">>), LinkClose>> }
  \cup
  (IF allowHtml
   THEN { <<HtmlInline(<<"<", "a", " ", "h", "r", "e", "f", "=", "\"", "j", "a", "v", "a", "s", "c", "r", "i", "p", "t", ":", "x", "\"", ">">>), Text(<<"a">>), HtmlInline(InlineHtml("aClose"))>>,
          <<HtmlInline(<<"<", "a", " ", "h", "r", "e", "f", "=", "\"", "u", "\"", ">">>), Text(<<"a">>), HtmlInline(InlineHtml("aClose")),
            LinkOpen(<<Attr(AnchorHtml("href"), U_script)>>), Text(<<"b">>), LinkClose>> }
   ELSE {})

PlainLinkDoc == <<LinkOpen(<<Attr(AnchorHtml("href"), U_plain)>>), Text(<<"a">>), LinkClose>>

\* The calls: every page with one document, and every document under
\* every setting of the options on a page without plugins.
DelegatedInputs ==
  {[window |-> w, options |-> o, tokens |-> PlainLinkDoc] :
     w \in Windows, o \in {x \in AllOptions : ~x.allowHtml /\ x.linkTargetBlank}}
  \cup
  UNION {{[window |-> EmptyWindow, options |-> o, tokens |-> t] : t \in TokenDocs(o.allowHtml)} :
         o \in AllOptions}

InitDelegated ==
  /\ \E in \in DelegatedInputs :
       /\ options = in.options
       /\ dlg = [pc |-> "create", window |-> in.window, config |-> [html |-> FALSE],
                 k |-> 1, used |-> {}, threw |-> {}, rule |-> "default",
                 parsed |-> in.tokens, tokens |-> in.tokens, pieces |-> <<>>, html |-> <<>>]
  /\ stack = <<>>
  /\ result = <<"running">>
  /\ placed = {}
  /\ call = NoCall

\* const mdIt = mdItFactory({html: allowHtml, ...}); mdIt.enable([...])
CreateEngine ==
  /\ dlg.pc = "create"
  /\ dlg' = [dlg EXCEPT !.pc = "plugins", !.config = [html |-> options.allowHtml]]
  /\ UNCHANGED <<options, stack, result, placed, call>>

AfterPlugin(k) == IF k = Len(PluginNames) THEN "override" ELSE "plugins"

\* A maybeUse whose try block ends the call when mdIt.use throws.
UsePluginUncaught ==
  /\ dlg.pc = "plugins"
  /\ Registers(dlg.window[dlg.k]) \/ Throws(dlg.window[dlg.k])
  /\ IF Throws(dlg.window[dlg.k])
     THEN /\ dlg' = [dlg EXCEPT !.pc = "thrown", !.threw = @ \cup {dlg.k}]
          /\ result' = <<"thrown">>
     ELSE /\ dlg' = [dlg EXCEPT !.pc = AfterPlugin(dlg.k), !.k = @ + 1,
                                !.used = @ \cup {dlg.k}]
          /\ result' = result
  /\ UNCHANGED <<options, stack, placed, call>>

\* maybeUse(name) when window[name] is a function or has a function under
\* "default": try { mdIt.use(g) } catch (e) { }
UsePlugin ==
  /\ dlg.pc = "plugins"
  /\ Registers(dlg.window[dlg.k]) \/ Throws(dlg.window[dlg.k])
  /\ dlg' = [dlg EXCEPT !.pc = AfterPlugin(dlg.k), !.k = @ + 1,
                        !.used = IF Throws(dlg.window[dlg.k]) THEN @ ELSE @ \cup {dlg.k},
                        !.threw = IF Throws(dlg.window[dlg.k]) THEN @ \cup {dlg.k} ELSE @]
  /\ UNCHANGED <<options, stack, result, placed, call>>

\* maybeUse(name) when window[name] is neither: return false
SkipPlugin ==
  /\ dlg.pc = "plugins"
  /\ dlg.window[dlg.k] \in {"undefined", "object"}
  /\ dlg' = [dlg EXCEPT !.pc = AfterPlugin(dlg.k), !.k = @ + 1]
  /\ UNCHANGED <<options, stack, result, placed, call>>

\* if (!opts.allowUnsafeLinks) mdIt.renderer.rules.link_open = ...
InstallOverride ==
  /\ dlg.pc = "override"
  /\ ~options.allowUnsafeLinks
  /\ dlg' = [dlg EXCEPT !.pc = "render", !.rule = "safe"]
  /\ UNCHANGED <<options, stack, result, placed, call>>

KeepDefaultRule ==
  /\ dlg.pc = "override"
  /\ options.allowUnsafeLinks
  /\ dlg' = [dlg EXCEPT !.pc = "render"]
  /\ UNCHANGED <<options, stack, result, placed, call>>

\* The token as the installed rule leaves it: token.attrs[hrefIdx][1] = safe || "#"
tokenAfter(token, rule) ==
  With(IF token.kind = "link_open" THEN attrIndex(token.attrs, AnchorHtml("href")) ELSE 0, LAMBDA hrefIdx :
  With(safeLinkHref(token.attrs[hrefIdx].value, FALSE), LAMBDA safe :
     IF rule = "safe" /\ hrefIdx >= 1
     THEN [token EXCEPT !.attrs[hrefIdx].value = IF safe = <<>> THEN <<"#">> ELSE safe]
     ELSE token))

\* let html = mdIt.render(normalizeNewlines(md))
Render ==
  /\ dlg.pc = "render"
  /\ With([k \in DOMAIN dlg.tokens |-> renderToken(dlg.tokens[k], dlg.rule)], LAMBDA pieces :
        dlg' = [dlg EXCEPT !.pc = "post",
                           !.tokens = [k \in DOMAIN dlg.tokens |-> tokenAfter(dlg.tokens[k], dlg.rule)],
                           !.pieces = pieces,
                           !.html = Concat(pieces)])
  /\ UNCHANGED <<options, stack, result, placed, call>>

\* html = addRelTargetToLinks(html, ...); return html
RewriteAnchors ==
  /\ dlg.pc = "post"
  /\ dlg' = [dlg EXCEPT !.pc = "done"]
  /\ result' = <<"done", addRelTargetToLinks(dlg.html, options.linkTargetBlank)>>
  /\ UNCHANGED <<options, stack, placed, call>>

NextDelegated ==
  \/ CreateEngine \/ UsePlugin \/ SkipPlugin \/ InstallOverride \/ KeepDefaultRule
  \/ Render \/ RewriteAnchors

SpecDelegated == InitDelegated /\ [][NextDelegated]_vars

(***************************************************************************)
(* safeLinkHref called on its own.                                         *)
(***************************************************************************)
toUpperChar(c) ==
  IF c \in Lower THEN UpperSeq[CHOOSE k \in DOMAIN LowerSeq : LowerSeq[k] = c] ELSE c

\* Every spelling of w in upper and lower case letters.
CaseVariants(w) ==
  {[k \in DOMAIN w |-> IF k \in U THEN toUpperChar(w[k]) ELSE w[k]] : U \in SUBSET DOMAIN w}

Schemes == CaseVariants(Blocked("javascript")) \cup CaseVariants(Blocked("vbscript")) \cup CaseVariants(Blocked("data"))

HrefCandidates ==
  {lead \o scheme \o rest \o trail :
     lead \in {<<>>, <<" ">>, <<TAB, NL>>},
     scheme \in Schemes,
     rest \in {<<>>, <<"a", "l", "e", "r", "t", "(", "1", ")">>},
     trail \in {<<>>, <<" ">>}}
  \cup
  { <<>>, <<" ">>, <<"#">>, <<"u">>, <<"h", "t", "t", "p", ":", "/", "/", "a">>, <<" ", "m", "a", "i", "l", "t", "o", ":", "a", " ">>, <<"j", "a", "v", "a", "s", "c", "r", "i", "p", "t">>,
    <<"x", "j", "a", "v", "a", "s", "c", "r", "i", "p", "t", ":", "a">>, <<"j", "a", "v", "a", " ", "s", "c", "r", "i", "p", "t", ":", "a">>, <<"/", "d", "a", "t", "a", ":", "a">> }

InitHref ==
  /\ \E h \in HrefCandidates, allow \in BOOLEAN :
       call = [fn |-> "safeLinkHref", pc |-> "called", href |-> h,
               allowUnsafeLinks |-> allow, ret |-> <<>>]
  /\ options = DefaultOpts
  /\ stack = <<>>
  /\ result = <<"idle">>
  /\ placed = {}
  /\ dlg = NoEngine

ReturnHref ==
  /\ call.fn = "safeLinkHref"
  /\ call.pc = "called"
  /\ call' = [call EXCEPT !.pc = "returned",
                          !.ret = safeLinkHref(call.href, call.allowUnsafeLinks)]
  /\ UNCHANGED <<options, stack, result, placed, dlg>>

NextHref == ReturnHref

SpecHref == InitHref /\ [][NextHref]_vars

(***************************************************************************)
(* renderInline called on its own: the text is escaped, then each          *)
(* replacement runs on the result of the one before.                       *)
(***************************************************************************)
NoTitle == <<"none">>

\* [label](url), [label](url "title"), and the same after "!"
LinkSource(kind, label, url, title) ==
  (IF kind = "image" THEN <<"!">> ELSE <<>>)
  \o <<"[">> \o label \o <<"]", "(">> \o url
  \o (IF title = NoTitle THEN <<>> ELSE <<" ", "\"">> \o title \o <<"\"">>)
  \o <<")">>

InlineUrls ==
  { <<"u">>, <<"h", "t", "t", "p", ":", "/", "/", "a", "/", "b">>, <<"j", "a", "v", "a", "s", "c", "r", "i", "p", "t", ":", "a", "l", "e", "r", "t", "(", "1", ")">>, <<"J", "a", "v", "a", "S", "c", "r", "i", "p", "t", ":", "x">>, <<" ", "j", "a", "v", "a", "s", "c", "r", "i", "p", "t", ":", "x">>, <<"v", "b", "s", "c", "r", "i", "p", "t", ":", "x">>, <<"d", "a", "t", "a", ":", "x">> }

InlineInputs ==
  {[kind |-> kind, label |-> <<"x">>, url |-> url, title |-> title,
    text |-> LinkSource(kind, <<"x">>, url, title)] :
     kind \in {"link", "image"}, url \in InlineUrls, title \in {NoTitle, <<"t">>}}
  \cup
  {[kind |-> "plain", label |-> <<>>, url |-> <<>>, title |-> NoTitle, text |-> t] :
     t \in { <<Backtick, "c", Backtick>>,
             <<"<", "h", "t", "t", "p", ":", "/", "/", "a", ">">>,
             <<"s", "e", "e", " ", "h", "t", "t", "p", ":", "/", "/", "a">>,
             <<"~", "~", "s", "~", "~">>,
             <<"*", "*", "b", "*", "*">>,
             <<"_", "_", "b", "_", "_">>,
             <<"*", "i", "*">>,
             <<"_", "i", "_">>,
             <<"a", " ", "&", " ", "b">>,
             <<Backtick, "*", "a", "*", Backtick>>,
             <<"!", "[", "a", " ", "h", "t", "t", "p", ":", "/", "/", "x", "]", "(", "u", ")">>,
             <<"[", "a", "]", "(", "u", "_", "b", "_", "c", ")">> }}

InitInline ==
  /\ \E in \in InlineInputs :
       call = [fn |-> "renderInline", n |-> -1, kind |-> in.kind, label |-> in.label,
               url |-> in.url, title |-> in.title, text |-> in.text, s |-> in.text]
  /\ options \in FallbackOptions
  /\ stack = <<>>
  /\ result = <<"idle">>
  /\ placed = {}
  /\ dlg = NoEngine

\* One statement of renderInline: the replacements from..to.
InlineStep(from, to) ==
  /\ call.fn = "renderInline"
  /\ call.n = from - 1
  /\ call' = [call EXCEPT !.n = to, !.s = applyStages(call.s, from, to, options)]
  /\ UNCHANGED <<options, stack, result, placed, dlg>>

\* let s = escapeHtml(text)
EscapeText ==
  /\ call.fn = "renderInline"
  /\ call.n = -1
  /\ call' = [call EXCEPT !.n = 0, !.s = escapeHtml(call.text)]
  /\ UNCHANGED <<options, stack, result, placed, dlg>>

CodeSpans == InlineStep(1, 1)
Images == InlineStep(2, 2)
Links == InlineStep(3, 3)
Autolinks == InlineStep(4, 4)
BareUrls == InlineStep(5, 5)
Strikethrough == InlineStep(6, 6)
Bold == InlineStep(7, 8)
Italic == InlineStep(9, 10)

NextInline ==
  \/ EscapeText \/ CodeSpans \/ Images \/ Links \/ Autolinks \/ BareUrls
  \/ Strikethrough \/ Bold \/ Italic

SpecInline == InitInline /\ [][NextInline]_vars

(***************************************************************************)
(* Properties of the block segmenter.                                      *)
(***************************************************************************)
Frames == {stack[d] : d \in DOMAIN stack}
Done == result[1] = "done"

\* The lines of the outermost call.
SourceLines == stack[1].lines

\* C1: every iteration of the segmentation loop strictly increases the
\* cursor i, at every nesting depth (so the loop ends and the call returns).
C1_CursorAdvances ==
  [][(Segmenting /\ stack' # stack /\ Len(stack') = Len(stack))
       => stack'[Len(stack')].i > Top.i]_vars

\* A closing fence line for marker character c: the three markers alone on
\* the line, whitespace around them allowed.
IsClosingLine(l, c) == Trim(l) = <<c, c, c>>

\* The lines from..to of frame f are one fenced code block: they end at the
\* first closing line after from (or at the end of input), the block holds
\* the lines in between, nothing else claims any of them, and the segmenter
\* goes on right after them (only blank lines are passed over).
FenceIsOneBlock(f, d, b) ==
  LET from == f.spans[b].from
      to == f.spans[b].to
      c == f.lines[from][SkipWs(f.lines[from], 1)]
      closers == {j \in (from + 1)..Len(f.lines) : IsClosingLine(f.lines[j], c)}
      close == IF closers = {} THEN Len(f.lines) + 1
               ELSE CHOOSE j \in closers : \A j2 \in closers : j <= j2
      \* where the segmenter went on: the next block, or the cursor
      resume == IF b < Len(f.spans) THEN f.spans[b + 1].from ELSE f.i
  IN /\ f.blocks[b].type = "code"
     /\ f.blocks[b].content = SubSeq(f.lines, from + 1, close - 1)
     /\ to = Min(close, Len(f.lines))
     /\ \A k \in (to + 1)..(resume - 1) : IsBlank(f.lines[k])
     /\ \A k \in from..to :
          {p \in placed : p.line = f.origin[k] /\ p.depth = d}
            = {[line |-> f.origin[k], depth |-> d, type |-> "code", blk |-> b]}

\* C4: the lines after an opening fence, up to the first closing line or the
\* end of input, are the content of one code block; none of them starts a
\* block of its own, and the cursor resumes after the closing line.
C4_FenceSwallowsLines ==
  \A d \in DOMAIN stack :
    \A b \in DOMAIN stack[d].spans :
      LET f == stack[d]
      IN (f.spans[b].from <= f.spans[b].to /\ parseFence(f.lines[f.spans[b].from]).ok)
           => FenceIsOneBlock(f, d - 1, b)

\* C4 witness: a fence holding a line that looks like a heading, closed by a
\* closing line, rendered as one block.
C4_Witness ==
  /\ Done
  /\ Len(SourceLines) = 3
  /\ parseFence(SourceLines[1]).ok
  /\ parseAtxHeading(SourceLines[2]).ok
  /\ IsClosingLine(SourceLines[3], Backtick)
  /\ Len(stack[1].blocks) = 1
  /\ stack[1].blocks[1].content = <<SourceLines[2]>>

\* The top-level blocks whose span holds line k.
Owners(f, k) == {b \in DOMAIN f.spans : f.spans[b].from <= k /\ k <= f.spans[b].to}

\* C5 as stated: when the call has returned, every line of the input is
\* consumed by exactly one top-level block.
C5_EveryLineInOneBlock ==
  Done => \A k \in DOMAIN SourceLines : Cardinality(Owners(stack[1], k)) = 1

\* C5 as amended: no line is consumed by two blocks, the blocks are in
\* source order, every non-blank line the cursor has passed is consumed by
\* exactly one block, and a line outside every block is blank; this holds
\* at every nesting depth.
C5_NonBlankLinesInOneBlock ==
  \A f \in Frames :
    /\ f.i <= Len(f.lines) + 1
    /\ \A b \in DOMAIN f.spans :
         /\ f.spans[b].to < f.i
         /\ b > 1 => f.spans[b - 1].to < f.spans[b].from
    /\ \A k \in 1..(f.i - 1) :
         /\ Cardinality(Owners(f, k)) <= 1
         /\ Owners(f, k) = {} => IsBlank(f.lines[k])

\* C5 witness: a returned call with two blocks and a blank line that was
\* skipped between them.
C5_Witness ==
  /\ Done
  /\ Len(stack[1].blocks) = 2
  /\ \E k \in DOMAIN SourceLines :
       IsBlank(SourceLines[k]) /\ Owners(stack[1], k) = {}

\* The number of > prefixes a line carries: the > characters of its longest
\* prefix made of whitespace and >.
QuotePrefixes(line) ==
  LET e == Scan(line, 1, LAMBDA c : c # ">" /\ ~IsWs(c))
  IN CountChar(SubSeq(line, 1, e - 1), ">")

LeafPlaced == {p \in placed : p.type # "blockquote"}

\* C9 as stated: a line of a blockquote run that carries k nested > prefixes
\* ends up inside k nested blockquotes.
C9_DepthIsPrefixCount ==
  \A p \in LeafPlaced :
    (\E q \in placed : q.line = p.line /\ q.type = "blockquote")
      => p.depth = QuotePrefixes(SourceLines[p.line])

\* inner is outer with exactly one > prefix level removed.
OneLevelStripped(outer, inner) ==
  LET n == Len(outer) - Len(inner)
  IN /\ n >= 1
     /\ inner = From(outer, n + 1)
     /\ CountChar(SubSeq(outer, 1, n), ">") = 1
     /\ \A k \in 1..n : outer[k] = ">" \/ IsWs(outer[k])

\* The positions of html at which lit occurs.
Occurrences(html, lit) == {q \in DOMAIN html : StartsWithAt(html, q, lit)}

\* The deepest nesting of <blockquote> elements in html.
QuoteNesting(html) ==
  LET opens == Occurrences(html, BlockHtml("bqOpen"))
      closes == Occurrences(html, BlockHtml("bqClose"))
      level(q) == Cardinality({o \in opens : o <= q}) - Cardinality({c \in closes : c < q})
  IN IF opens = {} THEN 0
     ELSE CHOOSE n \in {level(q) : q \in opens} : \A q \in opens : level(q) <= n

\* C9 as amended: each recursive call receives the lines of the run with
\* exactly one > prefix removed, each strictly shorter than the caller's
\* line; a line is inside as many nested blockquotes as the levels at which
\* the segmenter took it for a blockquote line, which is at most the number
\* of > prefixes it carries; the returned HTML nests <blockquote> that deep.
C9_OneLevelPerCall ==
  /\ \A d \in 2..Len(stack) :
       LET caller == stack[d - 1]
           sp == caller.spans[caller.r]
       IN /\ Len(stack[d].lines) = sp.to - sp.from + 1
          /\ \A k \in DOMAIN stack[d].lines :
               OneLevelStripped(caller.lines[sp.from + k - 1], stack[d].lines[k])
  /\ \A p \in LeafPlaced :
       /\ p.depth <= QuotePrefixes(SourceLines[p.line])
       /\ Cardinality({q \in placed : q.line = p.line /\ q.type = "blockquote"}) = p.depth
  /\ Done /\ (\A f \in Frames : Len(f.spans) < MaxBlocks) =>
       \A n \in {p.depth : p \in LeafPlaced} : n <= QuoteNesting(result[2])

\* C9 witness: a line with two > prefixes, consumed at depth 2 and returned
\* inside two nested <blockquote> elements.
C9_Witness ==
  /\ Done
  /\ \E p \in LeafPlaced : p.depth = 2 /\ QuotePrefixes(SourceLines[p.line]) = 2
  /\ QuoteNesting(result[2]) = 2

(***************************************************************************)
(* Properties of the link safety policy and of the anchors in the output.  *)
(***************************************************************************)
SameLetter(a, b) == a = b \/ \E k \in DOMAIN LowerSeq : {a, b} = {LowerSeq[k], UpperSeq[k]}

BlockedSchemes == {Blocked("javascript"), Blocked("vbscript"), Blocked("data")}

\* h begins, after its leading whitespace and in any letter case, with one
\* of the blocked schemes.
BeginsWithBlocked(h) ==
  \E sch \in BlockedSchemes, i \in DOMAIN h :
    /\ \A k \in 1..(i - 1) : IsWs(h[k])
    /\ i + Len(sch) - 1 <= Len(h)
    /\ \A k \in DOMAIN sch : SameLetter(h[i + k - 1], sch[k])

HrefReturned == call.fn = "safeLinkHref" /\ call.pc = "returned"

\* C2: for every candidate href that begins, in any letter case and after
\* its surrounding whitespace is trimmed, with javascript:, vbscript: or
\* data:, safeLinkHref(candidate, false) returns the empty string.
C2_BlockedSchemesRejected ==
  (HrefReturned /\ ~call.allowUnsafeLinks /\ BeginsWithBlocked(call.href))
    => call.ret = <<>>

\* C2 happens: a candidate with leading whitespace and a scheme in mixed
\* case was rejected.
C2_Witness ==
  /\ HrefReturned /\ ~call.allowUnsafeLinks /\ BeginsWithBlocked(call.href)
  /\ IsWs(call.href[1])
  /\ \E j, k \in DOMAIN call.href : call.href[j] \in Upper /\ call.href[k] \in Lower
  /\ call.ret = <<>>

\* The values of the attribute name="..." in html.
AttrValues(html, name) ==
  LET open == <<" ">> \o name \o <<"=", "\"">>
  IN {SubSeq(html, p + Len(open), IndexOf(html, "\"", p + Len(open)) - 1) :
        p \in {q \in DOMAIN html : StartsWithAt(html, q, open)}}

S_src == <<"s", "r", "c">>

\* The urls html refers to, as a browser reads them.
UrlValues(html) ==
  {unescapeHtml(v) : v \in AttrValues(html, AnchorHtml("href")) \cup AttrValues(html, S_src)}

Contains(s, sub) == IndexOfLit(s, sub, 1) <= Len(s)

InlineDone == call.fn = "renderInline" /\ call.n = Len(InlineStages)

RejectedLinkRendered ==
  /\ InlineDone /\ options = DefaultOpts
  /\ call.kind \in {"link", "image"} /\ call.title = NoTitle
  /\ BeginsWithBlocked(call.url)

\* C3: with default options, [label](url) with a url the policy rejects is
\* rendered as an anchor with href="#" that shows the label, ![alt](url)
\* with such a url renders no element, and no rejected url is the value of
\* an href or src in the output.
C3_RejectedUrlNeverRendered ==
  RejectedLinkRendered =>
    /\ \A v \in UrlValues(call.s) : ~BeginsWithBlocked(v)
    /\ call.kind = "link" =>
         /\ Contains(call.s, InlineHtml("aHref") \o <<"#", "\"">>)
         /\ Contains(call.s, <<">">> \o call.label \o InlineHtml("aClose"))
    /\ call.kind = "image" => ~Includes(call.s, "<")

\* C3 happens: a link with a rejected url was rendered with href="#".
C3_Witness ==
  /\ RejectedLinkRendered /\ call.kind = "link"
  /\ AttrValues(call.s, AnchorHtml("href")) = {<<"#">>}

\* C10: a link or image with a quoted title and an accepted url is rendered
\* as an anchor (or img) with that url and a title attribute holding the title.
C10_TitleRendered ==
  (InlineDone /\ call.kind \in {"link", "image"} /\ call.title # NoTitle
     /\ ~BeginsWithBlocked(call.url))
    => /\ call.title \in AttrValues(call.s, S_title)
       /\ Trim(call.url) \in UrlValues(call.s)

\* The end of the tag that opens at p: the first ">" outside double quotes.
TagEnd(html, p) ==
  LET ends == {e \in p..Len(html) : /\ html[e] = ">"
                                    /\ CountChar(SubSeq(html, p, e), "\"") % 2 = 0}
  IN IF ends = {} THEN Len(html) ELSE CHOOSE e \in ends : \A f \in ends : e <= f

\* The opening tags of the anchors in html.
AnchorTags(html) ==
  {SubSeq(html, p, TagEnd(html, p)) :
     p \in {q \in DOMAIN html : /\ StartsWithAt(html, q, AnchorHtml("aOpen"))
                                /\ q + 2 <= Len(html)
                                /\ html[q + 2] \in {" ", ">"}}}

S_blank == <<"_", "b", "l", "a", "n", "k">>

OpensSafely(tag) ==
  /\ S_blank \in AttrValues(tag, AnchorHtml("target"))
  /\ \E v \in AttrValues(tag, AnchorHtml("rel")) :
       InSeq(AnchorHtml("noopener"), Words(v)) /\ InSeq(AnchorHtml("noreferrer"), Words(v))

\* C6: with linkTargetBlank enabled, every anchor in the HTML the entry
\* point returns carries target="_blank" and a rel attribute with both
\* noopener and noreferrer.
C6_AnchorsOpenSafely ==
  (Done /\ options.linkTargetBlank)
    => \A tag \in AnchorTags(result[2]) : OpensSafely(tag)

DelegatedRendered == dlg.pc \in {"post", "done"}

IsLinkWithHref(token) ==
  token.kind = "link_open" /\ attrIndex(token.attrs, AnchorHtml("href")) >= 1

LinkHref(token) == token.attrs[attrIndex(token.attrs, AnchorHtml("href"))].value

\* C7 as stated: on the delegated path with allowUnsafeLinks unset, no
\* anchor of the returned HTML has an href the policy rejects.
C7_NoRejectedHref ==
  (dlg.pc = "done" /\ ~options.allowUnsafeLinks)
    => \A v \in AttrValues(result[2], AnchorHtml("href")) : ~BeginsWithBlocked(unescapeHtml(v))

\* C7 amended: on the delegated path with allowUnsafeLinks unset, the href
\* of every anchor the engine renders from a link token has passed the
\* policy, and a rejected one is replaced by "#"; when the engine was
\* created without raw HTML, that is every anchor of the returned HTML.
C7_LinkTokenHrefsPass ==
  (DelegatedRendered /\ ~options.allowUnsafeLinks)
    => /\ \A k \in DOMAIN dlg.parsed :
            IsLinkWithHref(dlg.parsed[k]) =>
              LET vals == AttrValues(dlg.pieces[k], AnchorHtml("href"))
              IN /\ vals # {}
                 /\ \A v \in vals : ~BeginsWithBlocked(unescapeHtml(v))
                 /\ BeginsWithBlocked(LinkHref(dlg.parsed[k])) => vals = {<<"#">>}
                 /\ ~BeginsWithBlocked(LinkHref(dlg.parsed[k])) =>
                      vals = {escapeHtml(Trim(LinkHref(dlg.parsed[k])))}
       /\ (dlg.pc = "done" /\ ~dlg.config.html) =>
            \A v \in AttrValues(result[2], AnchorHtml("href")) : ~BeginsWithBlocked(unescapeHtml(v))

\* C7 happens: a link token with a rejected href was rendered with "#".
C7_Witness ==
  /\ dlg.pc = "done" /\ ~options.allowUnsafeLinks
  /\ \E k \in DOMAIN dlg.parsed :
       /\ IsLinkWithHref(dlg.parsed[k])
       /\ BeginsWithBlocked(LinkHref(dlg.parsed[k]))
       /\ AttrValues(dlg.pieces[k], AnchorHtml("href")) = {<<"#">>}
  /\ <<"#">> \in AttrValues(result[2], AnchorHtml("href"))

Present(k) == Registers(dlg.window[k]) \/ Throws(dlg.window[k])

\* C8: registration is attempted for each of the nine plugins in turn; one
\* whose registration throws is skipped without aborting the call: every
\* later plugin is still attempted, the link_open override is still
\* installed, and rendering still returns HTML.
C8_ThrowingPluginSkipped ==
  /\ result[1] # "thrown"
  /\ dlg.pc \in {"create", "plugins", "override", "render", "post", "done"}
  /\ dlg.pc = "plugins" =>
       dlg.used \cup dlg.threw = {k \in 1..(dlg.k - 1) : Present(k)}
  /\ dlg.pc \in {"override", "render", "post", "done"} =>
       /\ dlg.used = {k \in Plugins : Registers(dlg.window[k])}
       /\ dlg.threw = {k \in Plugins : Throws(dlg.window[k])}
  /\ (dlg.pc \in {"render", "post", "done"} /\ ~options.allowUnsafeLinks) =>
       dlg.rule = "safe"
  /\ dlg.pc = "done" =>
       result = <<"done", addRelTargetToLinks(dlg.html, options.linkTargetBlank)>>

\* C8 happens: a registration threw, a later plugin was registered, the
\* override was installed and the call returned HTML.
C8_Witness ==
  /\ dlg.pc = "done" /\ result[1] = "done" /\ dlg.rule = "safe"
  /\ \E a, b \in Plugins : a < b /\ a \in dlg.threw /\ b \in dlg.used
  /\ Contains(result[2], InlineHtml("aHref"))

(***************************************************************************)
(* Properties of the classification order and of the block delimiters.     *)
(***************************************************************************)
\* The classifiers in the order the claim gives them.
ClassifierOrder ==
  <<"fence", "indented", "setext", "atx", "hr", "blockquote", "table", "list", "paragraph">>

\* Classifier kind accepts the lines at index i.
Matches(kind, lines, i) ==
  CASE kind = "fence" -> parseFence(lines[i]).ok
    [] kind = "indented" -> parseIndentedCode(lines, i).ok
    [] kind = "setext" -> parseSetextHeading(lines, i).ok
    [] kind = "atx" -> parseAtxHeading(lines[i]).ok
    [] kind = "hr" -> isThematicBreak(lines[i])
    [] kind = "blockquote" -> parseBlockquote(lines, i).ok
    [] kind = "table" -> parseTable(lines, i).ok
    [] kind = "list" -> parseList(lines, i).ok
    [] kind = "paragraph" -> parseParagraph(lines, i).ok

\* The first classifier of the order that accepts the lines at index i.
FirstMatching(lines, i) ==
  ClassifierOrder[CHOOSE k \in DOMAIN ClassifierOrder :
                    /\ Matches(ClassifierOrder[k], lines, i)
                    /\ \A j \in 1..(k - 1) : ~Matches(ClassifierOrder[j], lines, i)]

\* The block classifier kind yields at index i, and the index after it.
Emitted(kind, lines, i) ==
  CASE kind = "fence" ->
         With(FenceEnd(lines, i + 1, parseFence(lines[i]).marker), LAMBDA j :
            [block |-> [type |-> "code", lang |-> parseFence(lines[i]).lang,
                        content |-> SubSeq(lines, i + 1, j - 1)],
             next |-> IF j <= Len(lines) THEN j + 1 ELSE j])
    [] kind = "indented" ->
         With(parseIndentedCode(lines, i), LAMBDA b :
            [block |-> [type |-> "code", lang |-> <<>>, content |-> b.content],
             next |-> b.nextIndex])
    [] kind = "setext" ->
         With(parseSetextHeading(lines, i), LAMBDA h :
            [block |-> [type |-> "heading", level |-> h.level, text |-> h.text],
             next |-> i + 2])
    [] kind = "atx" ->
         With(parseAtxHeading(lines[i]), LAMBDA h :
            [block |-> [type |-> "heading", level |-> h.level, text |-> h.text],
             next |-> i + 1])
    [] kind = "hr" -> [block |-> [type |-> "hr"], next |-> i + 1]
    [] kind = "blockquote" ->
         With(parseBlockquote(lines, i), LAMBDA b :
            [block |-> [type |-> "blockquote", lines |-> b.lines], next |-> b.nextIndex])
    [] kind = "table" ->
         With(parseTable(lines, i), LAMBDA b :
            [block |-> [type |-> "table", headers |-> b.headers, aligns |-> b.aligns,
                        rows |-> b.rows],
             next |-> b.nextIndex])
    [] kind = "list" ->
         With(parseList(lines, i), LAMBDA b :
            [block |-> [type |-> "list", ordered |-> b.ordered, items |-> b.items],
             next |-> b.nextIndex])
    [] kind = "paragraph" ->
         With(parseParagraph(lines, i), LAMBDA b :
            [block |-> [type |-> "paragraph", lines |-> b.lines], next |-> b.nextIndex])

\* C11: every block the segmenter has emitted, at every nesting depth, began
\* on a non-blank line and is the block of the first classifier, in the
\* order fenced code, indented code, setext heading, ATX heading, thematic
\* break, blockquote, table, list, paragraph, that accepts the lines at the
\* cursor position the block began at; the cursor went on where that
\* classifier says.
C11_FirstMatchWins ==
  \A f \in Frames :
    \A b \in DOMAIN f.spans :
      With(f.spans[b].from, LAMBDA i :
         /\ ~IsBlank(f.lines[i])
         /\ With(Emitted(FirstMatching(f.lines, i), f.lines, i), LAMBDA e :
               /\ f.blocks[b] = e.block
               /\ f.spans[b].to = e.next - 1))

\* C11 happens: a call returned a level-2 heading for a list item followed by
\* a line of dashes, and a thematic break for a line the list classifier
\* accepts as well.
C11_Witness ==
  /\ Done
  /\ Len(SourceLines) = 3
  /\ parseList(SourceLines, 1).ok
  /\ SourceLines[2] = <<"-", "-", "-">>
  /\ parseList(SourceLines, 3).ok
  /\ stack[1].blocks = <<[type |-> "heading", level |-> 2, text |-> SourceLines[1]],
                         [type |-> "hr"]>>

\* The number of times c is repeated at the start of t.
RunLen(t, c) == Cardinality({k \in DOMAIN t : \A j \in 1..k : t[j] = c})

\* A line of n >= 3 backticks or n >= 3 tildes, with an optional language tag.
OpensFence(l) ==
  With(Trim(l), LAMBDA t :
     /\ Len(t) >= 3
     /\ t[1] \in {Backtick, "~"}
     /\ With(RunLen(t, t[1]), LAMBDA n :
           /\ n >= 3
           /\ SkipLang(t, SkipWs(t, n + 1)) = Len(t) + 1))

\* A line of only the marker character c, repeated at least n times.
ClosesFence(l, c, n) ==
  With(Trim(l), LAMBDA t : Len(t) >= n /\ \A k \in DOMAIN t : t[k] = c)

\* The first line after i that closes a fence of n markers c (Len(lines)+1
\* if none).
FirstCloser(lines, i, c, n) ==
  With({j \in (i + 1)..Len(lines) : ClosesFence(lines[j], c, n)}, LAMBDA closers :
     IF closers = {} THEN Len(lines) + 1
     ELSE CHOOSE j \in closers : \A j2 \in closers : j <= j2)

\* C12: a block that began on a line of n >= 3 backticks or tildes (with an
\* optional language tag) is a fenced code block holding the lines up to the
\* first later line of at least n of the same marker character alone, and it
\* ends with that line (or with the input).
C12_FenceDelimiters ==
  \A f \in Frames :
    \A b \in DOMAIN f.spans :
      With(f.spans[b].from, LAMBDA i :
         OpensFence(f.lines[i]) =>
           With(Trim(f.lines[i]), LAMBDA t :
           With(FirstCloser(f.lines, i, t[1], RunLen(t, t[1])), LAMBDA close :
              /\ f.blocks[b].type = "code"
              /\ f.blocks[b].content = SubSeq(f.lines, i + 1, close - 1)
              /\ f.spans[b].to = Min(close, Len(f.lines)))))

\* C13: a paragraph block that holds lines ends exactly at the first line
\* that is blank or that starts one of the eight block types tried before the
\* paragraph: no
\* line of the block after its first is one the top-level classifier gives
\* to another block type, and the line right after the block, if any, is
\* blank or starts another block type.
C13_ParagraphEndsAtBlockStart ==
  \A f \in Frames :
    \A b \in DOMAIN f.spans :
      (f.blocks[b].type = "paragraph" /\ f.spans[b].from <= f.spans[b].to) =>
        /\ \A k \in (f.spans[b].from + 1)..f.spans[b].to :
             Classify(f.lines, k) = "paragraph"
        /\ \/ f.spans[b].to = Len(f.lines)
           \/ Classify(f.lines, f.spans[b].to + 1) # "paragraph"

(***************************************************************************)
(* Properties of the stages of renderInline and of escaping.               *)
(***************************************************************************)
\* The positions of s at which lit occurs, in increasing order.
OccurrencesOf(s, lit) ==
  With({p \in DOMAIN s : StartsWithAt(s, p, lit)}, LAMBDA ps :
     [k \in 1..Cardinality(ps) |->
        CHOOSE p \in ps : Cardinality({q \in ps : q < p}) = k - 1])

\* The contents of the code elements of s, in order: the characters between
\* each <code> and the </code> after it.
CodeContents(s) ==
  With(OccurrencesOf(s, InlineHtml("codeOpen")), LAMBDA opens :
     [k \in DOMAIN opens |->
        SubSeq(s, opens[k] + Len(InlineHtml("codeOpen")),
               IndexOfLit(s, InlineHtml("codeClose"), opens[k]) - 1)])

\* C14: every statement of renderInline after the inline-code stage leaves
\* the characters between each <code> and its </code> as they were.
C14_CodeSpansUntouched ==
  [][(call.fn = "renderInline" /\ call.n >= 1)
       => CodeContents(call'.s) = CodeContents(call.s)]_vars

\* The opening <img and <a tags of s, each up to the > that ends it.
OpeningTags(s) ==
  {SubSeq(s, p, TagEnd(s, p)) :
     p \in {q \in DOMAIN s : \/ StartsWithAt(s, q, InlineHtml("imgSrc"))
                             \/ StartsWithAt(s, q, InlineHtml("aHref"))}}

\* C15: every statement of renderInline after the image and link stages
\* leaves each <img and <a tag emitted so far as it was: nothing is linked
\* or inserted inside a tag, and no attribute value of it changes.
C15_GeneratedTagsUntouched ==
  [][(call.fn = "renderInline" /\ call.n >= 3)
       => \A tag \in OpeningTags(call.s) : Contains(call'.s, tag)]_vars

\* The entities escapeHtml and escapeAttr write.
Entities == {Entity(n) : n \in {"amp", "lt", "gt", "quot", "apos", "bt"}}

\* C16: in the HTML a call of the fallback pipeline returns for a source
\* that holds no entity of its own, every & begins an entity and no &amp;
\* was escaped a second time.
C16_EscapedOnce ==
  (Done /\ dlg = NoEngine /\ ~Contains(Join(SourceLines, NL), Entity("amp")))
    => /\ ~Contains(result[2], <<"&", "a", "m", "p", ";", "a", "m", "p", ";">>)
       /\ \A p \in DOMAIN result[2] :
            result[2][p] = "&" => \E e \in Entities : StartsWithAt(result[2], p, e)

====
